---- MODULE Spec2Model ----
(***************************************************************************)
(* Version0: versioned snapshot (performBackup) and restore                *)
(* (restoreFromBackup, restoreLatestBackup) of a git working tree, as      *)
(* implemented by BackupManager and GithubService.                         *)
(*                                                                         *)
(* Branch names are sequences of tokens: one token per character, except   *)
(* that a whole well-formed 'YYYY-MM-DD_HH-mm-ss' text is one token.       *)
(***************************************************************************)
EXTENDS Integers, Sequences, FiniteSets, TLC

\* ------------------------------------------------------------------ bounds
\* Longest branch list handed to the version allocator on its own.
MaxList == 3
\* Operations (snapshots and restores) started in one behaviour.
MaxOps == 2
\* Seconds the wall clock may advance.
MaxClock == 1
\* Commands (of git, of the file system, of the hosting API) that fail in
\* one behaviour.
MaxFaults == 1

\* ------------------------------------------------------- text of names
Digits == <<"0", "1", "2", "3", "4", "5", "6", "7", "8", "9">>

IsDigit(c) == \E i \in 1..10 : Digits[i] = c

DigitVal(c) == (CHOOSE i \in 1..10 : Digits[i] = c) - 1

\* The end (exclusive) of the longest run of digits of s that starts at i:
\* the greedy \d+ of the regular expression.
RECURSIVE DigitRunEnd(_, _)
DigitRunEnd(s, i) ==
  IF i <= Len(s) /\ IsDigit(s[i]) THEN DigitRunEnd(s, i + 1) ELSE i

\* parseInt(text, 10) of a run of digits.
RECURSIVE ParseInt(_)
ParseInt(ds) ==
  IF ds = <<>> THEN 0
  ELSE 10 * ParseInt(SubSeq(ds, 1, Len(ds) - 1)) + DigitVal(ds[Len(ds)])

\* `${n}` of a non-negative integer.
RECURSIVE ToDigits(_)
ToDigits(n) ==
  IF n < 10 THEN <<Digits[n + 1]>>
  ELSE ToDigits(n \div 10) \o <<Digits[(n % 10) + 1]>>

\* branch.match(/^v(\d+)\.(\d+)/): <<>> when the name does not match,
\* <<major, minor>> (after parseInt) when it does.
MatchVersion(branch) ==
  IF Len(branch) >= 4 /\ branch[1] = "v" /\ IsDigit(branch[2])
  THEN LET e1 == DigitRunEnd(branch, 2)
       IN  IF e1 + 1 <= Len(branch) /\ branch[e1] = "." /\ IsDigit(branch[e1 + 1])
           THEN LET e2 == DigitRunEnd(branch, e1 + 1)
                IN  <<ParseInt(SubSeq(branch, 2, e1 - 1)),
                      ParseInt(SubSeq(branch, e1 + 1, e2 - 1))>>
           ELSE <<>>
  ELSE <<>>

\* A plausible slip: the minor found so far is kept when a higher major
\* appears.
VersionStepKeepsMinor(acc, branch) ==
  LET match == MatchVersion(branch)
  IN  IF match = <<>> THEN acc
      ELSE IF match[1] > acc[1]
           THEN <<match[1], IF match[2] > acc[2] THEN match[2] ELSE acc[2]>>
      ELSE IF match[1] = acc[1] /\ match[2] > acc[2] THEN <<acc[1], match[2]>>
      ELSE acc

\* One round of the forEach of performBackup over the listed branches:
\* acc is <<maxMajor, maxMinor>>.
VersionStep(acc, branch) ==
  LET match == MatchVersion(branch)
  IN  IF match = <<>> THEN acc
      ELSE IF match[1] > acc[1] THEN <<match[1], match[2]>>
      ELSE IF match[1] = acc[1] /\ match[2] > acc[2] THEN <<acc[1], match[2]>>
      ELSE acc

RECURSIVE VersionFold(_, _)
VersionFold(acc, branches) ==
  IF branches = <<>> THEN acc
  ELSE VersionFold(VersionStep(acc, Head(branches)), Tail(branches))

\* A plausible slip: the minor is not stepped.
NextVersionNoStep(existingBranches) ==
  LET acc == VersionFold(<<0, -1>>, existingBranches)
  IN  IF acc[2] # -1
      THEN ToDigits(acc[1]) \o <<".">> \o ToDigits(acc[2])
      ELSE <<"1", ".", "0">>

\* The version performBackup allocates from the listed branches, as the
\* text of `${maxMajor}.${maxMinor + 1}`, or '1.0'.
NextVersion(existingBranches) ==
  LET acc == VersionFold(<<0, -1>>, existingBranches)
  IN  IF acc[2] # -1
      THEN ToDigits(acc[1]) \o <<".">> \o ToDigits(acc[2] + 1)
      ELSE <<"1", ".", "0">>

\* ------------------------------------------------------------ timestamps
\* moment().format('YYYY-MM-DD_HH-mm-ss') of the wall clock, second by
\* second: entry t is the text for clock value t.
TsTokens == <<"2024-01-01_00-00-00", "2024-02-10_00-00-00", "2024-03-05_00-00-00",
              "2024-03-05_00-00-01", "2024-03-05_00-00-02", "2024-03-05_00-00-03",
              "2024-03-05_00-00-04", "2024-03-05_00-00-05">>

\* moment().format('YYYYMMDDHHmmss') of the same clock values.
StashTsTokens == <<"20240101000000", "20240210000000", "20240305000000",
                   "20240305000001", "20240305000002", "20240305000003",
                   "20240305000004", "20240305000005">>

\* A well-formed text of a moment before the epoch, and one of no date.
PreEpochTs == "1969-12-31_23-59-59"
NoDateTs == "2024-13-45_00-00-00"

\* The clock value of the first operation: later than every branch the
\* destination holds initially.
ClockStart == 4

FormatTs(t) == TsTokens[t]

FormatStashTs(t) == StashTsTokens[t]

\* A plausible slip: the parse is not strict (the third argument is left
\* out), so that text after the timestamp is passed over.
ParsedTimeNotStrict(segment) ==
  IF Len(segment) >= 1 /\ \E t \in DOMAIN TsTokens : TsTokens[t] = segment[1]
  THEN CHOOSE t \in DOMAIN TsTokens : TsTokens[t] = segment[1]
  ELSE 0

\* moment(ts, 'YYYY-MM-DD_HH-mm-ss', true) of one segment of a name, then
\* time.isValid() ? time.toDate().getTime() : 0. A segment is a valid text
\* only when it is exactly one timestamp token of a real date.
ParsedTime(segment) ==
  IF Len(segment) = 1 /\ \E t \in DOMAIN TsTokens : TsTokens[t] = segment[1]
  THEN CHOOSE t \in DOMAIN TsTokens : TsTokens[t] = segment[1]
  ELSE IF segment = <<PreEpochTs>> THEN -1
  ELSE 0

\* b.split('/'): the segments of a name between its '/' tokens.
RECURSIVE SplitSlash(_)
SplitSlash(name) ==
  IF \A i \in DOMAIN name : name[i] # "/" THEN <<name>>
  ELSE LET i == CHOOSE j \in DOMAIN name :
                  name[j] = "/" /\ \A k \in 1..(j - 1) : name[k] # "/"
       IN  <<SubSeq(name, 1, i - 1)>> \o SplitSlash(SubSeq(name, i + 1, Len(name)))

\* A plausible slip: the version segment before the '/' is parsed instead.
TimeOfBranchFirstPart(b) ==
  LET parts == SplitSlash(b)
  IN  ParsedTime(parts[1])

\* parts[1] of the split: the segment after the first '/', undefined (no
\* text, an invalid moment) when the name has no '/'.
TimeOfBranch(b) ==
  LET parts == SplitSlash(b)
  IN  IF Len(parts) >= 2 THEN ParsedTime(parts[2]) ELSE 0

\* .sort((a, b) => b.time - a.time) then parsed[0], on the branches that
\* passed the filter b.time > 0: the sort is stable, so the head is the
\* first listed branch of the greatest time.
RECURSIVE InsertByTime(_, _)
InsertByTime(sorted, b) ==
  IF sorted = <<>> THEN <<b>>
  ELSE IF TimeOfBranch(Head(sorted)) >= TimeOfBranch(b)
       THEN <<Head(sorted)>> \o InsertByTime(Tail(sorted), b)
       ELSE <<b>> \o sorted

RECURSIVE SortByTimeDesc(_)
SortByTimeDesc(bs) ==
  IF bs = <<>> THEN <<>>
  ELSE InsertByTime(SortByTimeDesc(SubSeq(bs, 1, Len(bs) - 1)), bs[Len(bs)])

\* getLatestBackupBranch on the listed branches: <<>> stands for undefined.
LatestOf(branches) ==
  LET parsed == SortByTimeDesc(SelectSeq(branches, LAMBDA b : TimeOfBranch(b) > 0))
  IN  IF Len(parsed) > 0 THEN parsed[1] ELSE <<>>

\* ------------------------------------------------------------ the names
\* A plausible slip: the name is made of the timestamp alone.
BranchNameDropsVersion(version, timestamp) == <<"v", "/", timestamp>>

\* let branchName = `v${nextVersion}/${timestamp}`
BranchName(version, timestamp) == <<"v">> \o version \o <<"/", timestamp>>

V(major, minor) == ToDigits(major) \o <<".">> \o ToDigits(minor)

\* Branch names the allocator is tried on: matching and not matching.
NamePool ==
  { BranchName(V(1, 0), TsTokens[1]),
    BranchName(V(1, 2), TsTokens[2]),
    BranchName(V(2, 0), TsTokens[3]),
    BranchName(V(0, 3), TsTokens[1]),
    BranchName(V(1, 9), TsTokens[2]),
    BranchName(V(10, 0), TsTokens[1]),
    <<"v", "2", ".", "0", "1">>,
    <<"v", "e", "r">>,
    <<"v", "1", ".", "x">> }

RECURSIVE SeqsUpTo(_, _)
SeqsUpTo(S, n) ==
  IF n = 0 THEN {<<>>}
  ELSE LET shorter == SeqsUpTo(S, n - 1)
       IN  shorter \cup {Append(s, x) : s \in {t \in shorter : Len(t) = n - 1}, x \in S}

Range(s) == {s[i] : i \in DOMAIN s}

\* One listing of a finite set, and the same back to front.
RECURSIVE OneListing(_)
OneListing(S) ==
  IF S = {} THEN <<>>
  ELSE LET x == CHOOSE y \in S : TRUE IN <<x>> \o OneListing(S \ {x})

Reverse(s) == [i \in DOMAIN s |-> s[Len(s) + 1 - i]]

\* ------------------------------------------------- configuration, remotes
\* A repository URL as its scheme, host, owner and repository texts.
UrlA == <<"https:", "github.com", "o", "a.git">>
UrlB == <<"git@", "github.com", "o", "b">>
UrlOther == <<"https:", "gitlab.com", "o", "a.git">>
NoUrl == <<>>

\* GithubService.parseRepoUrl: <<>> stands for null.
ParseRepoUrl(url) ==
  IF Len(url) = 4 /\ url[1] \in {"https:", "git@"} /\ url[2] = "github.com"
  THEN <<url[3], IF url[4] = "a.git" THEN "a" ELSE url[4]>>
  ELSE <<>>

BACKUP_REMOTE_NAME == "version0_backup_target"

Remote(name, push, fetch) == [name |-> name, push |-> push, fetch |-> fetch]

\* Changed paths of the working tree; a path is the sequence of its texts.
GoodPath == <<"src", "/", "a.txt">>
BadPath == <<"voicetype", "/", "x">>
\* Tracked paths that name 'voicetype' and are not under the directory.
BadPath2 == <<"lib", "/", "voicetype", "/", "y">>
BadPath3 == <<"old", "/", "voicetype">>
Paths == {GoodPath, BadPath}

\* path.includes('voicetype')
IncludesVoicetype(path) == \E i \in DOMAIN path : path[i] = "voicetype"

\* Values of Math.floor(Math.random() * 1000) the model draws.
RandomSuffixes == {7, 42}

\* Texts a manual snapshot's note prompt may return; <<>> is a dismissed
\* prompt or an empty text.
Notes == {<<>>, <<"refactored login">>}

\* ------------------------------------------------------------- the state
VARIABLES
  workspace,        \* a workspace folder is open
  isRepo,           \* the workspace is the root of a git repository
  targetRepoUrl,    \* the setting version0.targetBackupRepoUrl
  octokit,          \* GithubService holds an API client
  remotes,          \* the repository's remotes: records name, push, fetch
  current,          \* the current branch, <<>> when there is none
  localBranches,    \* the local branches
  tracked,          \* the known-bad paths the index tracks
  changed,          \* the paths git status reports
  staged,           \* those of them that are staged
  stashList,        \* the stashes, newest first: records label, files
  remoteBranches,   \* per URL, the branches the repository there holds
  remoteRefs,       \* the fetched remote-tracking branches of the alias
  clock,            \* the wall clock, in seconds
  ops,              \* operations started so far
  faults,           \* commands that failed so far
  pushed,           \* the snapshots pushed so far, oldest first
  commits,          \* the local branches that hold a snapshot commit
  tips,             \* the commit each local, fetched and remote branch points at
  lastBound,        \* the last remote binding: which URL it compared, the URL
  backupInterval,   \* the setting version0.backupInterval
  timer,            \* BackupManager.timer: the handle held, 0 for undefined
  timers,           \* the interval timers that are set
  call,             \* per entry point, the call in flight or just ended
  enableNotifications, \* the setting version0.enableNotifications
  webview,          \* the sidebar's messages: those posted, those handled
  extension,        \* the extension: whether it is active, the commands registered
  allocInput,       \* a branch list handed to the allocator on its own
  allocOutput,      \* the version it allocated, <<>> before
  staging           \* a status handed to the staging on its own: its files, the adds

vars == <<workspace, isRepo, targetRepoUrl, octokit, remotes, current,
          localBranches, tracked, changed, staged, stashList, remoteBranches,
          remoteRefs, clock, ops, faults, pushed, commits, tips, lastBound, backupInterval,
          timer, timers, call, enableNotifications, webview, extension, allocInput,
          allocOutput, staging>>

envVars == <<workspace, isRepo, targetRepoUrl, octokit, remotes, current,
             localBranches, tracked, changed, staged, stashList, remoteBranches,
             remoteRefs, clock, pushed, commits, tips, lastBound, backupInterval, timer,
             timers, enableNotifications, webview, extension>>

allocVars == <<allocInput, allocOutput, staging>>

\* The entry points: a manual snapshot, a scheduled one and one more that a
\* later tick of the timer starts, a restore, a push of the current branch.
Procs == {"manual", "timer", "timer2", "restore", "push"}

\* What a call answers: an error carries the fixed text of its message, the
\* texts interpolated into it and, as cause, the command whose own message
\* it passes on.
NoResult == [status |-> "none", text |-> "", args |-> <<>>, cause |-> ""]
Ok == [status |-> "ok", text |-> "", args |-> <<>>, cause |-> ""]
ErrorWith(text, args, cause) == [status |-> "error", text |-> text, args |-> args, cause |-> cause]
Error(text, cause) == ErrorWith(text, <<>>, cause)

\* A command issued (with the name or path it is about, and whether it
\* succeeded) and a message shown to the user (with the texts put into it).
Cmd(cmd, arg, ok) == [cmd |-> cmd, arg |-> arg, ok |-> ok]
Msg(sev, text, args) == [sev |-> sev, text |-> text, args |-> args]

IdleCall ==
  [pc |-> "idle", op |-> "none", url |-> NoUrl, enum |-> "none", listed |-> {},
   version |-> <<>>, timestamp |-> "", branchName |-> <<>>, note |-> <<>>,
   commitMessage |-> <<>>, files |-> <<>>, statusRead |-> FALSE,
   committed |-> <<>>, requested |-> <<>>, dirty |-> FALSE, stashed |-> FALSE,
   stashMsg |-> <<>>, pre |-> <<>>, bound |-> <<>>, cmds |-> <<>>, msgs |-> <<>>,
   result |-> NoResult]

Idle == \A q \in Procs : call[q].pc = "idle"

\* Whether one more command may fail, and the count after an outcome.
Outcomes == IF faults < MaxFaults THEN {TRUE, FALSE} ELSE {TRUE}
Charged(ok) == IF ok THEN faults ELSE faults + 1

\* The branches the destination holds when the behaviour starts.
InitialDestinations ==
  << {},
     { BranchName(V(1, 0), TsTokens[1]),
       BranchName(V(1, 2), TsTokens[3]),
       BranchName(V(2, 0), TsTokens[2]) },
     { BranchName(V(1, 1), TsTokens[2]) \o <<"-", "7">>,
       BranchName(V(1, 0), TsTokens[1]),
       <<"v", "e", "r">> },
     { BranchName(V(1, 0), PreEpochTs),
       BranchName(V(1, 1), NoDateTs) } >>

StaleRemote == Remote(BACKUP_REMOTE_NAME, UrlB, UrlB)

\* A remote of the alias as git remote set-url --push leaves it: its push
\* URL and its fetch URL differ. And a remote of the user's own.
SplitRemote == Remote(BACKUP_REMOTE_NAME, UrlA, UrlB)
Origin == Remote("origin", UrlOther, UrlOther)

\* getBackupInterval(): configuration.get('backupInterval') || 10
GetBackupInterval(configured) == IF configured = 0 THEN 10 ELSE configured

\* A plausible slip: the command that restores the latest snapshot is not
\* registered.
RegisterCommandsLeavesOut == {"version0.start", "version0.triggerBackup"}

\* activate(): the commands that registerCommand registers.
RegisterCommands ==
  {"version0.start", "version0.triggerBackup", "version0.restoreLatestBackup"}

\* The extension before its activation and after its deactivation, when the
\* subscriptions of its context are disposed of; and the extension once
\* activate() has run.
NotActive == [isActive |-> FALSE, commands |-> {}]
Activated == [isActive |-> TRUE, commands |-> RegisterCommands]

\* A commit is the sequence of the numbers of the commits of its history,
\* itself last; a branch with no commit yet has the empty history.
NoCommit == <<>>

\* The commit a branch points at, among the branches and commits of refs.
TipOf(refs, b) ==
  IF \E e \in refs : e.branch = b
  THEN (CHOOSE e \in refs : e.branch = b).commit
  ELSE NoCommit

\* The branch is created at, or moved to, a commit.
SetTip(refs, b, commit) ==
  {e \in refs : e.branch # b} \cup {[branch |-> b, commit |-> commit]}

\* A push, without --force, is accepted when it adds to the history the
\* remote's branch has.
FastForward(old, new) ==
  /\ Len(old) <= Len(new)
  /\ SubSeq(new, 1, Len(old)) = old

\* The commits when the behaviour starts: the local branches are at one
\* root commit, the branches of the destination at a commit each on top of
\* it, and a local branch that has the name of one of them at a commit of
\* its own. No branch has been fetched.
InitialTips(c) ==
  LET listed == OneListing(c.dest)
      held == {[branch |-> listed[i], commit |-> <<0, i>>] : i \in DOMAIN listed}
  IN  [local |-> {[branch |-> b, commit |-> IF b \in c.dest THEN <<0, 8>> ELSE <<0>>] :
                    b \in c.localBranches},
       tracking |-> {},
       remote |-> [u \in {UrlA, UrlB, UrlOther} |-> IF u = UrlB THEN {} ELSE held]]

\* No binding yet, or the last one failed.
NoBound == [kind |-> "none", url |-> NoUrl]

\* The workspaces a behaviour may start from: a usual one, and those that
\* differ from it in the preconditions, in the repository or in the
\* destination.
UsualConfig ==
  [workspace |-> TRUE, isRepo |-> TRUE, url |-> UrlA, octokit |-> TRUE, remotes |-> {},
   current |-> <<"main">>, localBranches |-> {<<"main">>}, tracked |-> {},
   dest |-> InitialDestinations[2], interval |-> 1, autoStart |-> TRUE,
   notifications |-> TRUE, active |-> TRUE, files |-> <<>>]

InitialConfigs ==
  {UsualConfig}
  \cup {[UsualConfig EXCEPT !.workspace = w, !.isRepo = FALSE, !.current = <<>>,
                            !.localBranches = {}] : w \in BOOLEAN}
  \cup {[UsualConfig EXCEPT !.url = NoUrl, !.remotes = {StaleRemote}],
        [UsualConfig EXCEPT !.url = NoUrl, !.isRepo = FALSE, !.current = <<>>,
                            !.localBranches = {}]}
  \cup {[UsualConfig EXCEPT !.dest = InitialDestinations[d]] : d \in DOMAIN InitialDestinations}
  \cup {[UsualConfig EXCEPT !.octokit = FALSE],
        [UsualConfig EXCEPT !.remotes = {StaleRemote}],
        [UsualConfig EXCEPT !.url = UrlOther],
        [UsualConfig EXCEPT !.tracked = {BadPath}],
        [UsualConfig EXCEPT !.current = <<>>],
        [UsualConfig EXCEPT !.current = <<>>, !.localBranches = {<<"master">>},
                            !.tracked = {BadPath, BadPath2, BadPath3}]}

InitOf(c) ==
  /\ workspace = c.workspace
  /\ isRepo = c.isRepo
  /\ targetRepoUrl = c.url
  /\ octokit = c.octokit
  /\ remotes = c.remotes
  /\ current = c.current
  /\ localBranches = c.localBranches
  /\ tracked = c.tracked
  /\ changed = {}
  /\ staged = {}
  /\ stashList = <<>>
  /\ remoteBranches = [u \in {UrlA, UrlB, UrlOther} |-> IF u = UrlB THEN {} ELSE c.dest]
  /\ remoteRefs = {}
  /\ clock = ClockStart
  /\ ops = 0
  /\ faults = 0
  /\ pushed = <<>>
  /\ commits = {}
  /\ tips = InitialTips(c)
  /\ lastBound = NoBound
  /\ backupInterval = c.interval
  /\ timer = (IF c.active /\ c.autoStart /\ GetBackupInterval(c.interval) > 0 THEN 1 ELSE 0)
  /\ timers = (IF c.active /\ c.autoStart /\ GetBackupInterval(c.interval) > 0 THEN {1} ELSE {})
  /\ call = [p \in Procs |-> IdleCall]
  /\ enableNotifications = c.notifications
  /\ webview = [posted |-> <<>>, handled |-> <<>>]
  /\ extension = (IF c.active THEN Activated ELSE NotActive)
  /\ staging = [files |-> c.files, adds |-> <<>>, done |-> FALSE]

Init ==
  /\ \E c \in InitialConfigs : InitOf(c)
  /\ allocInput = <<>>
  /\ allocOutput = <<>>

constVars == <<workspace, targetRepoUrl, clock, backupInterval, timer, timers,
               allocInput, allocOutput, staging, enableNotifications, webview, extension>>

\* ------------------------------------------------------------ snapshot
\* A plausible slip: the remote is removed and added at every binding.
BindRemoteAlwaysAdds(rs, url, pushUrl, failAt) ==
  [remotes |-> {r \in rs : r.name # BACKUP_REMOTE_NAME} \cup {Remote(BACKUP_REMOTE_NAME, url, url)},
   cmds |-> <<Cmd("getRemotes", <<>>, TRUE), Cmd("removeRemote", <<>>, TRUE),
              Cmd("addRemote", url, TRUE)>>,
   failed |-> "none"]

\* A plausible slip: the rebinding removes every remote of the repository.
BindRemoteDropsAll(rs, url, pushUrl, failAt) ==
  [remotes |-> {Remote(BACKUP_REMOTE_NAME, url, url)},
   cmds |-> <<Cmd("getRemotes", <<>>, TRUE), Cmd("removeRemote", <<>>, TRUE),
              Cmd("addRemote", url, TRUE)>>,
   failed |-> "none"]

\* A plausible slip: the binding is left out.
BindRemoteLeftOut(rs, url, pushUrl, failAt) ==
  [remotes |-> rs, cmds |-> <<>>, failed |-> "none"]

\* The remote-binding block of performBackup (pushUrl TRUE: the push URL
\* is compared) and of restoreFromBackup (the fetch URL is). failAt names
\* the command that throws, "none" when none does. The result holds the
\* remotes after the block, the commands issued and the command that threw.
BindRemote(rs, url, pushUrl, failAt) ==
  IF failAt = "getRemotes"
  THEN [remotes |-> rs, cmds |-> <<Cmd("getRemotes", <<>>, FALSE)>>, failed |-> "getRemotes"]
  ELSE
    LET found == {r \in rs : r.name = BACKUP_REMOTE_NAME}
        stale == {r \in found : (IF pushUrl THEN r.push ELSE r.fetch) # url}
        got == <<Cmd("getRemotes", <<>>, TRUE)>>
    IN  IF stale # {} /\ failAt = "removeRemote"
        THEN [remotes |-> rs, cmds |-> got \o <<Cmd("removeRemote", <<>>, FALSE)>>,
              failed |-> "removeRemote"]
        ELSE
          LET rs1 == IF stale # {} THEN rs \ found ELSE rs
              c1 == IF stale # {} THEN got \o <<Cmd("removeRemote", <<>>, TRUE)>> ELSE got
              absent == found = {} \/ stale # {}
          IN  IF ~absent THEN [remotes |-> rs1, cmds |-> c1, failed |-> "none"]
              ELSE IF failAt = "addRemote"
              THEN [remotes |-> rs1, cmds |-> c1 \o <<Cmd("addRemote", url, FALSE)>>,
                    failed |-> "addRemote"]
              ELSE [remotes |-> rs1 \cup {Remote(BACKUP_REMOTE_NAME, url, url)},
                    cmds |-> c1 \o <<Cmd("addRemote", url, TRUE)>>, failed |-> "none"]

\* What a binding leaves to be known of it: the URL it compared and the
\* URL it bound, nothing of one that threw.
Bound(b, kind, url) == IF b.failed = "none" THEN [kind |-> kind, url |-> url] ELSE NoBound

BindFailures ==
  IF faults < MaxFaults THEN {"none", "getRemotes", "removeRemote", "addRemote"}
  ELSE {"none"}

\* git status lists the changed paths in path order.
PathOrder == <<BadPath2, BadPath3, GoodPath, BadPath>>

StatusFiles(S) == SelectSeq(PathOrder, LAMBDA f : f \in S)

\* const batchSize = 50
BatchSize == 50

\* getEnableNotifications(): configuration.get('enableNotifications') || true
GetEnableNotifications(configured) == configured \/ TRUE

\* A plausible slip: the catch block deletes the branch it was on.
BackupFailedRollsBack(c, cause) ==
  [c EXCEPT !.pc = "done",
            !.cmds = Append(@, Cmd("deleteLocalBranch", c.branchName, TRUE)),
            !.result = Error("Git operation failed", cause)]

\* The catch block of performBackup: the notification and the error thrown.
BackupFailed(c, cause) ==
  [c EXCEPT !.pc = "done",
            !.msgs = IF GetEnableNotifications(enableNotifications)
                     THEN Append(@, Msg("error", "Version0: Backup failed", <<>>))
                     ELSE @,
            !.result = Error("Git operation failed", cause)]

\* triggerManualBackup (p = "manual") or a tick of the timer that is set:
\* performBackup is called. Operations are started one at a time.
StartBackup(p) ==
  /\ p \in {"manual", "timer"}
  /\ p = "timer" => timers # {}
  /\ ops < MaxOps
  /\ Idle
  /\ ops' = ops + 1
  /\ call' = [call EXCEPT ![p] = [IdleCall EXCEPT !.pc = "init", !.op = "backup"]]
  /\ UNCHANGED <<envVars, faults, allocVars>>

\* A plausible slip: the callback of the timer stops the scheduler when the
\* snapshot it started has thrown.
ReturnStopsOnError(p) ==
  /\ call[p].pc = "done"
  /\ call' = [call EXCEPT ![p] = IdleCall]
  /\ timer' = (IF call[p].result.status = "error" THEN 0 ELSE timer)
  /\ timers' = (IF call[p].result.status = "error" THEN {} ELSE timers)
  /\ UNCHANGED <<workspace, isRepo, targetRepoUrl, octokit, remotes, current, localBranches,
                 tracked, changed, staged, stashList, remoteBranches, remoteRefs, clock, pushed,
                 commits, tips, lastBound, backupInterval, enableNotifications, webview,
                 extension, ops, faults, allocVars>>

\* The call has answered: its caller takes the result.
Return(p) ==
  /\ call[p].pc = "done"
  /\ call' = [call EXCEPT ![p] = IdleCall]
  /\ UNCHANGED <<envVars, ops, faults, allocVars>>

\* A plausible slip: a declined prompt lets the snapshot go on.
DeclinedGoesOn(c, asked) == [c EXCEPT !.pc = "url", !.msgs = asked]

\* if (initChoice !== 'Initialize Git Repository') throw new Error(...)
Declined(c, asked) ==
  [c EXCEPT !.pc = "done", !.msgs = asked,
            !.result = Error("Backup cancelled: Workspace is not a Git repository.", "")]

\* initializeGit(true), the workspace check and the prompt to initialize.
BackupInit(p) ==
  /\ call[p].pc = "init" /\ call[p].op = "backup"
  /\ \/ /\ ~workspace
        /\ call' = [call EXCEPT ![p] = [@ EXCEPT !.pc = "done",
                      !.result = Error("Backup failed: No workspace folder open.", "")]]
        /\ UNCHANGED <<isRepo, current, localBranches, faults>>
     \/ /\ workspace /\ isRepo
        /\ call' = [call EXCEPT ![p] = [@ EXCEPT !.pc = "url"]]
        /\ UNCHANGED <<isRepo, current, localBranches, faults>>
     \/ /\ workspace /\ ~isRepo
        /\ LET asked == Append(call[p].msgs,
                          Msg("prompt", "is not a Git repository. Initialize now?", <<>>))
           IN  \/ /\ call' = [call EXCEPT ![p] = Declined(@, asked)]
                  /\ UNCHANGED <<isRepo, current, localBranches, faults>>
               \/ \E ok \in Outcomes :
                    /\ faults' = Charged(ok)
                    /\ IF ok
                       THEN /\ isRepo' = TRUE
                            /\ current' \in {<<>>, <<"main">>}
                            /\ localBranches' = {}
                            /\ call' = [call EXCEPT ![p] = [@ EXCEPT !.pc = "url",
                                 !.msgs = Append(asked, Msg("info", "Git repository initialized in", <<>>)),
                                 !.cmds = Append(@, Cmd("init", <<>>, TRUE))]]
                       ELSE /\ UNCHANGED <<isRepo, current, localBranches>>
                            /\ call' = [call EXCEPT ![p] = [@ EXCEPT !.pc = "done", !.msgs = asked,
                                 !.cmds = Append(@, Cmd("init", <<>>, FALSE)),
                                 !.result = Error("Git initialization failed", "init")]]
  /\ UNCHANGED <<lastBound, commits, tips>>
  /\ UNCHANGED <<constVars, ops, octokit, remotes, tracked, changed, staged, stashList,
                 remoteBranches, remoteRefs, pushed>>

\* A plausible slip: without a configured URL the snapshot goes to the
\* destination the remote of the alias was bound to.
BackupUrlDefaults(p) ==
  /\ call[p].pc = "url" /\ call[p].op = "backup"
  /\ call' = [call EXCEPT ![p] =
       [@ EXCEPT !.pc = "auth",
                 !.url = IF targetRepoUrl # NoUrl THEN targetRepoUrl ELSE UrlB]]
  /\ UNCHANGED <<envVars, ops, faults, allocVars>>

\* const targetRepoUrl = this.configManager.getTargetBackupRepoUrl()
BackupUrl(p) ==
  /\ call[p].pc = "url" /\ call[p].op = "backup"
  /\ call' = [call EXCEPT ![p] =
       IF targetRepoUrl = NoUrl
       THEN [@ EXCEPT !.pc = "done", !.result =
               Error("Backup failed: Target backup repository URL is not configured", "")]
       ELSE [@ EXCEPT !.pc = "auth", !.url = targetRepoUrl]]
  /\ UNCHANGED <<envVars, ops, faults, allocVars>>

\* A plausible slip: a caller that is not authenticated is let through
\* without an attempt to authenticate.
BackupAuthLetsThrough(p) ==
  /\ call[p].pc = "auth" /\ call[p].op = "backup"
  /\ call' = [call EXCEPT ![p] = [@ EXCEPT !.pc = "bind",
                !.cmds = Append(@, Cmd("isAuthenticated", <<>>, FALSE))]]
  /\ UNCHANGED <<envVars, ops, faults, allocVars>>

\* isAuthenticated(), then one authenticate() when it answers false. The
\* probe of a client's token may fail; a session may or may not exist.
BackupAuth(p) ==
  /\ call[p].pc = "auth" /\ call[p].op = "backup"
  /\ \E tokenValid \in (IF octokit THEN Outcomes ELSE {TRUE}),
        silentSession \in BOOLEAN, session \in BOOLEAN :
       LET authenticated == IF octokit /\ tokenValid THEN TRUE ELSE silentSession
           probed == Append(call[p].cmds, Cmd("isAuthenticated", <<>>, authenticated))
       IN  /\ faults' = Charged(tokenValid)
           /\ IF authenticated
              THEN /\ octokit' = TRUE
                   /\ call' = [call EXCEPT ![p] = [@ EXCEPT !.pc = "bind", !.cmds = probed]]
              ELSE /\ octokit' = session
                   /\ call' = [call EXCEPT ![p] =
                        IF session
                        THEN [@ EXCEPT !.pc = "bind",
                                !.cmds = Append(probed, Cmd("authenticate", <<>>, TRUE)),
                                !.msgs = Append(@, Msg("info", "Successfully authenticated with GitHub", <<>>))]
                        ELSE [@ EXCEPT !.pc = "done",
                                !.cmds = Append(probed, Cmd("authenticate", <<>>, FALSE)),
                                !.msgs = Append(@, Msg("error", "GitHub authentication failed", <<>>)),
                                !.result = Error("Backup failed: GitHub authentication required.", "")]]
  /\ UNCHANGED <<lastBound, commits, tips>>
  /\ UNCHANGED <<constVars, ops, isRepo, remotes, current, localBranches, tracked, changed,
                 staged, stashList, remoteBranches, remoteRefs, pushed>>

\* Configure the dedicated backup remote.
BackupBind(p) ==
  /\ call[p].pc = "bind" /\ call[p].op = "backup"
  /\ \E failAt \in BindFailures :
       LET b == BindRemote(remotes, call[p].url, TRUE, failAt)
           seen == <<[prior |-> lastBound, before |-> remotes, after |-> b.remotes]>>
       IN  /\ remotes' = b.remotes
           /\ lastBound' = Bound(b, "push", call[p].url)
           /\ faults' = Charged(b.failed = "none")
           /\ call' = [call EXCEPT ![p] =
                IF b.failed = "none"
                THEN [@ EXCEPT !.pc = "enumerate", !.cmds = @ \o b.cmds, !.bound = seen]
                ELSE [@ EXCEPT !.pc = "done", !.cmds = @ \o b.cmds,
                        !.result = Error("Failed to configure backup remote", b.failed)]]
  /\ UNCHANGED <<commits, tips>>
  /\ UNCHANGED <<constVars, ops, isRepo, octokit, current, localBranches, tracked, changed,
                 staged, stashList, remoteBranches, remoteRefs, pushed>>

\* GithubService.getBackupBranchesFromTargetUrl: what one call may answer.
\* enum tells how it went: "ok", or the reason the answer is the empty list.
\* The order of the branches in the answer is not fixed: one order and its
\* reverse are tried here, every order where the allocator is tried alone.
ListOutcomes(url) ==
  IF ~octokit
  THEN {[branches |-> <<>>, enum |-> "noClient", msgs |-> <<>>]}
  ELSE IF ParseRepoUrl(url) = <<>>
  THEN {[branches |-> <<>>, enum |-> "badUrl", msgs |-> <<>>]}
  ELSE {[branches |-> <<>>, enum |-> "listError",
         msgs |-> <<Msg("error", "Failed to list version branches", <<>>)>>] :
          ok \in Outcomes \ {TRUE}}
       \cup {[branches |-> l, enum |-> "ok", msgs |-> <<>>] :
               l \in LET one == OneListing({b \in remoteBranches[url] : b[1] = "v"})
                      IN  {one, Reverse(one)}}

\* Calculate the next version: the list is fetched and folded. The catch
\* block of this step is never entered: the listing answers [] instead of
\* throwing.
BackupEnumerate(p) ==
  /\ call[p].pc = "enumerate" /\ call[p].op = "backup"
  /\ \E o \in ListOutcomes(call[p].url) :
       /\ faults' = Charged(o.enum # "listError")
       /\ call' = [call EXCEPT ![p] = [@ EXCEPT
                  !.pc = "name",
                  !.cmds = Append(@, Cmd("listMatchingRefs", <<>>, o.enum = "ok")),
                  !.msgs = @ \o o.msgs,
                  !.enum = o.enum,
                  !.listed = Range(o.branches),
                  !.version = NextVersion(o.branches)]]
  /\ UNCHANGED <<envVars, ops, allocVars>>

\* A plausible slip: every snapshot is taken for a manual one.
IsManualAlways(p) == TRUE

\* performBackup(isManual = false): triggerManualBackup passes true, the
\* callback of the timer nothing.
IsManual(p) == p = "manual"

\* The timestamp, the branch name, the commit message and, for a manual
\* snapshot, the prompt for a note.
BackupName(p) ==
  /\ call[p].pc = "name" /\ call[p].op = "backup"
  /\ LET timestamp == FormatTs(clock)
         message == <<"Version0 Backup: v">> \o call[p].version \o <<" - ", timestamp>>
     IN  \E note \in (IF IsManual(p) THEN Notes ELSE {<<>>}) :
           call' = [call EXCEPT ![p] = [@ EXCEPT
                      !.pc = "status",
                      !.timestamp = timestamp,
                      !.branchName = BranchName(call[p].version, timestamp),
                      !.note = note,
                      !.cmds = IF IsManual(p) THEN Append(@, Cmd("showInputBox", <<>>, TRUE))
                               ELSE @,
                      !.commitMessage = IF note # <<>> THEN message \o <<" - ">> \o note
                                        ELSE message]]
  /\ UNCHANGED <<envVars, ops, faults, allocVars>>

\* git.status() and, without a current branch, the checkout of main, then
\* of master.
BackupStatus(p) ==
  /\ call[p].pc = "status" /\ call[p].op = "backup"
  /\ \E ok \in Outcomes :
       /\ faults' = Charged(ok)
       /\ IF ~ok
          THEN /\ call' = [call EXCEPT ![p] =
                    BackupFailed([@ EXCEPT !.cmds = Append(@, Cmd("status", <<>>, FALSE))], "status")]
               /\ UNCHANGED current
          ELSE LET read == Append(call[p].cmds, Cmd("status", <<>>, TRUE))
               IN  IF current # <<>>
                   THEN /\ call' = [call EXCEPT ![p] = [@ EXCEPT !.pc = "branch", !.cmds = read]]
                        /\ UNCHANGED current
                   ELSE IF <<"main">> \in localBranches
                   THEN /\ current' = <<"main">>
                        /\ call' = [call EXCEPT ![p] = [@ EXCEPT !.pc = "branch",
                             !.cmds = Append(read, Cmd("checkout", <<"main">>, TRUE)),
                             !.msgs = Append(@, Msg("info", "Switched to 'main' branch for initial backup.", <<>>))]]
                   ELSE IF <<"master">> \in localBranches
                   THEN /\ current' = <<"master">>
                        /\ call' = [call EXCEPT ![p] = [@ EXCEPT !.pc = "branch",
                             !.cmds = read \o <<Cmd("checkout", <<"main">>, FALSE),
                                                Cmd("checkout", <<"master">>, TRUE)>>,
                             !.msgs = Append(@, Msg("info", "Switched to 'master' branch for initial backup.", <<>>))]]
                   ELSE /\ UNCHANGED current
                        /\ call' = [call EXCEPT ![p] =
                             BackupFailed([@ EXCEPT !.cmds =
                               read \o <<Cmd("checkout", <<"main">>, FALSE),
                                         Cmd("checkout", <<"master">>, FALSE)>>], "defaultBranch")]
  /\ UNCHANGED <<lastBound, commits, tips>>
  /\ UNCHANGED <<constVars, ops, isRepo, octokit, remotes, localBranches, tracked, changed,
                 staged, stashList, remoteBranches, remoteRefs, pushed>>

\* A plausible slip: the branch is created and not checked out, or the
\* branch that was current is checked out again.
CheckoutLocalBranchStays(was, name) == was

\* git.checkoutLocalBranch(name), which is git checkout -b: the branch that
\* is current after it.
CheckoutLocalBranch(was, name) == name

\* `${branchName}-${Math.floor(Math.random() * 1000)}`
UniqueBranchName(branchName, r) == branchName \o <<"-">> \o ToDigits(r)

\* git.checkoutLocalBranch(branchName); a name already in use is switched
\* to, and when that fails a name with a random suffix is created.
BackupBranch(p) ==
  /\ call[p].pc = "branch" /\ call[p].op = "backup"
  /\ LET name == call[p].branchName
     IN  IF name \notin localBranches
         THEN \E ok \in Outcomes :
                /\ faults' = Charged(ok)
                /\ IF ok
                   THEN /\ localBranches' = localBranches \cup {name}
                        /\ tips' = [tips EXCEPT !.local = SetTip(@, name, TipOf(@, current))]
                        /\ current' = CheckoutLocalBranch(current, name)
                        /\ call' = [call EXCEPT ![p] = [@ EXCEPT !.pc = "fix",
                             !.cmds = Append(@, Cmd("checkoutLocalBranch", name, TRUE))]]
                   ELSE /\ UNCHANGED <<localBranches, current, tips>>
                        /\ call' = [call EXCEPT ![p] = BackupFailed([@ EXCEPT
                             !.cmds = Append(@, Cmd("checkoutLocalBranch", name, FALSE))],
                             "checkoutLocalBranch")]
         ELSE LET exists == Append(call[p].cmds, Cmd("checkoutLocalBranch", name, FALSE))
              IN  \/ /\ current' = name
                     /\ UNCHANGED <<localBranches, faults, tips>>
                     /\ call' = [call EXCEPT ![p] = [@ EXCEPT !.pc = "fix",
                          !.cmds = Append(exists, Cmd("checkout", name, TRUE))]]
                  \/ /\ faults < MaxFaults
                     /\ \E r \in RandomSuffixes, ok \in {TRUE, FALSE} :
                          LET unique == UniqueBranchName(name, r)
                              tried == Append(exists, Cmd("checkout", name, FALSE))
                              created == ok /\ unique \notin localBranches
                          IN  /\ faults + (IF ok THEN 1 ELSE 2) <= MaxFaults
                              /\ faults' = faults + (IF ok THEN 1 ELSE 2)
                              /\ IF created
                                 THEN /\ localBranches' = localBranches \cup {unique}
                                      /\ tips' = [tips EXCEPT
                                           !.local = SetTip(@, unique, TipOf(@, current))]
                                      /\ current' = CheckoutLocalBranch(current, unique)
                                      /\ call' = [call EXCEPT ![p] = [@ EXCEPT !.pc = "fix",
                                           !.branchName = unique,
                                           !.cmds = Append(tried, Cmd("checkoutLocalBranch", unique, TRUE))]]
                                 ELSE /\ UNCHANGED <<localBranches, current, tips>>
                                      /\ call' = [call EXCEPT ![p] = BackupFailed([@ EXCEPT
                                           !.cmds = Append(tried, Cmd("checkoutLocalBranch", unique, FALSE))],
                                           "checkoutLocalBranch")]
  /\ UNCHANGED <<lastBound, commits>>
  /\ UNCHANGED <<constVars, ops, isRepo, octokit, remotes, tracked, changed, staged,
                 stashList, remoteBranches, remoteRefs, pushed>>

\* The remote of the reserved alias, <<>> when there is none.
BackupRemoteOf(rs) ==
  IF \E r \in rs : r.name = BACKUP_REMOTE_NAME
  THEN <<CHOOSE r \in rs : r.name = BACKUP_REMOTE_NAME>>
  ELSE <<>>

\* A plausible slip: the first path that cannot be un-tracked ends the loop.
UntrackEachStopsAtFailure(problemFiles, rmFailAt) ==
  LET last == IF rmFailAt = 0 THEN Len(problemFiles) ELSE rmFailAt
  IN  [cmds |-> [i \in 1..last |-> Cmd("rm --cached", problemFiles[i], i # rmFailAt)],
       removed |-> {problemFiles[i] : i \in (1..last) \ {rmFailAt}}]

\* for (const file of problemFiles) { try { git rm --cached -f file }
\* catch { continue with the next file } }: the commands issued and the
\* paths un-tracked, when the command of path rmFailAt (0: of none) fails.
UntrackEach(problemFiles, rmFailAt) ==
  [cmds |-> [i \in DOMAIN problemFiles |->
               Cmd("rm --cached", problemFiles[i], i # rmFailAt)],
   removed |-> {problemFiles[i] : i \in DOMAIN problemFiles \ {rmFailAt}}]

\* The workspace path check, then tryFixGitCorruption: the tracked paths
\* under voicetype are un-tracked in one command, which fails when there
\* are none, and what ls-files still lists of them one by one (a staged
\* deletion each); every failure in it is swallowed, that of one path
\* (rmFailAt, 0 for none) before the next path is tried.
BackupFix(p) ==
  /\ call[p].pc = "fix" /\ call[p].op = "backup"
  /\ \E pathOk \in Outcomes :
       IF ~pathOk
       THEN /\ call' = [call EXCEPT ![p] = BackupFailed(@, "workspacePath")]
            /\ faults' = faults + 1
            /\ UNCHANGED <<tracked, changed, staged>>
       ELSE \E bulkOk \in Outcomes, lsOk \in Outcomes, rmFailAt \in 0..Cardinality(tracked) :
              LET underDir == {f \in tracked : f[1] = "voicetype"}
                  bulk == IF bulkOk THEN underDir ELSE {}
                  problemFiles == IF lsOk
                                  THEN SelectSeq(StatusFiles(tracked \ bulk), IncludesVoicetype)
                                  ELSE <<>>
                  each == UntrackEach(problemFiles, rmFailAt)
                  single == each.removed
                  rms == each.cmds
                  failed == Cardinality({x \in {<<1, bulkOk>>, <<2, lsOk>>, <<3, rmFailAt = 0>>} : ~x[2]})
              IN  /\ underDir = {} => bulkOk
                  /\ rmFailAt <= Len(problemFiles)
                  /\ faults + failed <= MaxFaults
                  /\ faults' = faults + failed
                  /\ tracked' = tracked \ (bulk \cup single)
                  /\ changed' = changed \cup bulk \cup single
                  /\ staged' = staged \cup bulk \cup single
                  /\ call' = [call EXCEPT ![p] = [@ EXCEPT !.pc = "stage",
                       !.cmds = @ \o <<Cmd("rm --cached -r", <<"voicetype">>,
                                           bulkOk /\ underDir # {}),
                                       Cmd("ls-files", <<>>, lsOk)>> \o rms]]
  /\ UNCHANGED <<lastBound, commits, tips>>
  /\ UNCHANGED <<constVars, ops, isRepo, octokit, remotes, current, localBranches,
                 stashList, remoteBranches, remoteRefs, pushed>>

\* A plausible slip: slice(i, batchSize) for slice(i, i + batchSize), which
\* leaves nothing from the second round on: the first batch only is added.
BatchesSlicesToSize(files, size) ==
  IF files = <<>> THEN <<>>
  ELSE <<SubSeq(files, 1, IF Len(files) <= size THEN Len(files) ELSE size)>>

\* files.slice(i, i + batchSize) for i = 0, batchSize, ...
RECURSIVE Batches(_, _)
Batches(files, size) ==
  IF files = <<>> THEN <<>>
  ELSE IF Len(files) <= size THEN <<files>>
  ELSE <<SubSeq(files, 1, size)>> \o Batches(SubSeq(files, size + 1, Len(files)), size)

\* A plausible slip: everything is added, as by git add '.'.
AddBatchesAll(files) == <<<<<<".">>>>>>

\* The batches git.add is called with, for the files of the status: none
\* for a status without files, else those of the paths that do not include
\* 'voicetype'.
AddBatches(files) ==
  IF Len(files) = 0 THEN <<>>
  ELSE LET filesToAdd == SelectSeq(files, LAMBDA f : ~IncludesVoicetype(f))
       IN  IF Len(filesToAdd) > 0 THEN Batches(filesToAdd, BatchSize) ELSE <<>>

\* The second git.status() and the adds, batch by batch; an error of the
\* status or of an add ends the staging and is swallowed.
BackupStage(p) ==
  /\ call[p].pc = "stage" /\ call[p].op = "backup"
  /\ \/ /\ faults < MaxFaults
        /\ faults' = faults + 1
        /\ call' = [call EXCEPT ![p] = [@ EXCEPT !.pc = "commit",
                      !.cmds = Append(@, Cmd("status", <<>>, FALSE))]]
        /\ UNCHANGED staged
     \/ LET files == StatusFiles(changed)
            batches == AddBatches(files)
            read == Append(call[p].cmds, Cmd("status", <<>>, TRUE))
        IN  \E failAt \in (IF faults < MaxFaults THEN 0..Len(batches) ELSE {0}) :
              LET done == IF failAt = 0 THEN Len(batches) ELSE failAt - 1
                  adds == [i \in 1..(IF failAt = 0 THEN Len(batches) ELSE failAt) |->
                             Cmd("add", batches[i][1], i # failAt)]
              IN  /\ faults' = Charged(failAt = 0)
                  /\ staged' = staged \cup UNION {Range(batches[i]) : i \in 1..done}
                  /\ call' = [call EXCEPT ![p] = [@ EXCEPT !.pc = "commit",
                       !.statusRead = TRUE,
                       !.files = files,
                       !.cmds = read \o adds]]
  /\ UNCHANGED <<lastBound, commits, tips>>
  /\ UNCHANGED <<constVars, ops, isRepo, octokit, remotes, current, localBranches, tracked,
                 changed, stashList, remoteBranches, remoteRefs, pushed>>

\* The commit that git.commit makes on top of a commit: its number is one
\* no commit of a branch has.
NewCommit(parent) ==
  LET known == {e.commit : e \in tips.local \cup tips.tracking
                                \cup UNION {tips.remote[u] : u \in DOMAIN tips.remote}}
      numbers == {8} \cup UNION {{k[i] : i \in DOMAIN k} : k \in known}
  IN  Append(parent, 1 + CHOOSE m \in numbers : \A n \in numbers : n <= m)

\* git.commit(commitMessage, { '--allow-empty': null }): the staged paths
\* are committed on the current branch, none of them an empty commit. A
\* path that was un-tracked stays in the working tree, not tracked.
BackupCommit(p) ==
  /\ call[p].pc = "commit" /\ call[p].op = "backup"
  /\ \E ok \in Outcomes :
       /\ faults' = Charged(ok)
       /\ IF ok
          THEN /\ changed' = (changed \ staged) \cup {f \in staged : IncludesVoicetype(f)}
               /\ staged' = {}
               /\ commits' = commits \cup {current}
               /\ tips' = [tips EXCEPT !.local = SetTip(@, current, NewCommit(TipOf(@, current)))]
               /\ call' = [call EXCEPT ![p] = [@ EXCEPT !.pc = "push",
                    !.committed = StatusFiles(staged),
                    !.cmds = Append(@, Cmd("commit", current, TRUE))]]
          ELSE /\ UNCHANGED <<changed, staged, commits, tips>>
               /\ call' = [call EXCEPT ![p] = BackupFailed([@ EXCEPT
                    !.cmds = Append(@, Cmd("commit", current, FALSE))], "commit")]
  /\ UNCHANGED lastBound
  /\ UNCHANGED <<constVars, ops, isRepo, octokit, remotes, current, localBranches, tracked,
                 stashList, remoteBranches, remoteRefs, pushed>>

\* git.push(BACKUP_REMOTE_NAME, branchName, { '--set-upstream': null })
BackupPush(p) ==
  /\ call[p].pc = "push" /\ call[p].op = "backup"
  /\ LET remote == BackupRemoteOf(remotes)
         name == call[p].branchName
     IN  \E ok \in Outcomes :
           /\ faults' = Charged(ok)
           /\ IF /\ ok /\ remote # <<>> /\ name \in localBranches
                 /\ FastForward(TipOf(tips.remote[remote[1].push], name), TipOf(tips.local, name))
              THEN /\ remoteBranches' = [remoteBranches EXCEPT ![remote[1].push] = @ \cup {name}]
                   /\ tips' = [tips EXCEPT !.remote[remote[1].push] =
                                  SetTip(@, name, TipOf(tips.local, name))]
                   /\ pushed' = Append(pushed, [name |-> name, version |-> call[p].version,
                                                enum |-> call[p].enum])
                   /\ call' = [call EXCEPT ![p] = [@ EXCEPT !.pc = "fetch",
                        !.cmds = Append(@, Cmd("push", name, TRUE))]]
              ELSE /\ UNCHANGED <<remoteBranches, pushed, tips>>
                   /\ call' = [call EXCEPT ![p] = BackupFailed([@ EXCEPT
                        !.cmds = Append(@, Cmd("push", name, FALSE))], "push")]
  /\ UNCHANGED <<lastBound, commits>>
  /\ UNCHANGED <<constVars, ops, isRepo, octokit, remotes, current, localBranches, tracked,
                 changed, staged, stashList, remoteRefs>>

\* git.fetch(BACKUP_REMOTE_NAME), then the notification of success.
BackupFetch(p) ==
  /\ call[p].pc = "fetch" /\ call[p].op = "backup"
  /\ LET remote == BackupRemoteOf(remotes)
     IN  \E ok \in Outcomes :
           /\ faults' = Charged(ok)
           /\ IF ok /\ remote # <<>>
              THEN /\ remoteRefs' = remoteRefs \cup remoteBranches[remote[1].fetch]
                   /\ tips' = [tips EXCEPT !.tracking =
                        {e \in @ : e.branch \notin remoteBranches[remote[1].fetch]}
                          \cup tips.remote[remote[1].fetch]]
                   /\ call' = [call EXCEPT ![p] = [@ EXCEPT !.pc = "done",
                        !.cmds = Append(@, Cmd("fetch", <<>>, TRUE)),
                        !.msgs = IF GetEnableNotifications(enableNotifications)
                                 THEN Append(@, Msg("info", "Version0: Backup successful.",
                                                    <<call[p].branchName>>))
                                 ELSE @,
                        !.result = Ok]]
              ELSE /\ UNCHANGED <<remoteRefs, tips>>
                   /\ call' = [call EXCEPT ![p] = BackupFailed([@ EXCEPT
                        !.cmds = Append(@, Cmd("fetch", <<>>, FALSE))], "fetch")]
  /\ UNCHANGED <<lastBound, commits>>
  /\ UNCHANGED <<constVars, ops, isRepo, octokit, remotes, current, localBranches, tracked,
                 changed, staged, stashList, remoteBranches, pushed>>

\* ------------------------------------------------------------- restore
\* A branch name no destination holds.
MissingBranch == BranchName(V(9, 9), TsTokens[1])

RestoreArgs == UNION {remoteBranches[u] : u \in DOMAIN remoteBranches} \cup {MissingBranch}

\* `Version0_stash_before_restore_${moment().format('YYYYMMDDHHmmss')}`
StashLabel(t) == <<"Version0_stash_before_restore_", FormatStashTs(t)>>

\* What the working tree, the current branch and the stash list are.
TreeState == [changed |-> changed, staged |-> staged, current |-> current,
              stashList |-> stashList]

\* The restoreBackup message of the sidebar view: restoreFromBackup(branchName).
StartRestore(p) ==
  /\ p = "restore"
  /\ ops < MaxOps
  /\ Idle
  /\ ops' = ops + 1
  /\ \E b \in RestoreArgs :
       call' = [call EXCEPT ![p] = [IdleCall EXCEPT !.pc = "init", !.op = "restore",
                                      !.requested = b, !.pre = <<TreeState>>]]
  /\ UNCHANGED <<envVars, faults, allocVars>>

\* The command version0.restoreLatestBackup: restoreLatestBackup().
StartRestoreLatest(p) ==
  /\ p = "restore"
  /\ "version0.restoreLatestBackup" \in extension.commands
  /\ ops < MaxOps
  /\ Idle
  /\ ops' = ops + 1
  /\ call' = [call EXCEPT ![p] = [IdleCall EXCEPT !.pc = "latest", !.op = "restoreLatest",
                                                 !.pre = <<TreeState>>]]
  /\ UNCHANGED <<envVars, faults, allocVars>>

\* A plausible slip: the stash comes straight after the binding.
StepAfterSkipsFetch(pc) ==
  IF pc = "init" THEN "bind"
  ELSE IF pc = "bind" THEN "stash"
  ELSE IF pc = "fetch" THEN "stash"
  ELSE IF pc = "stash" THEN "checkout"
  ELSE IF pc = "checkout" THEN "pop"
  ELSE "done"

\* The statements of restoreFromBackup in their order: the step that
\* follows a step that went well.
StepAfter(pc) ==
  IF pc = "init" THEN "bind"
  ELSE IF pc = "bind" THEN "fetch"
  ELSE IF pc = "fetch" THEN "stash"
  ELSE IF pc = "stash" THEN "checkout"
  ELSE IF pc = "checkout" THEN "pop"
  ELSE "done"

\* restoreLatestBackup up to its call of restoreFromBackup:
\* getLatestBackupBranch, and the error when it answers undefined.
RestoreLatest(p) ==
  /\ call[p].pc = "latest" /\ call[p].op = "restoreLatest"
  /\ LET none == Error("No backup branches found to restore.", "")
     IN  IF targetRepoUrl = NoUrl
         THEN /\ call' = [call EXCEPT ![p] = [@ EXCEPT !.pc = "done", !.result = none]]
              /\ UNCHANGED faults
         ELSE \E o \in ListOutcomes(targetRepoUrl) :
                LET latest == LatestOf(o.branches)
                    asked == [call[p] EXCEPT
                                !.cmds = Append(@, Cmd("listMatchingRefs", <<>>, o.enum = "ok")),
                                !.msgs = @ \o o.msgs,
                                !.enum = o.enum,
                                !.listed = Range(o.branches)]
                IN  /\ faults' = Charged(o.enum # "listError")
                    /\ call' = [call EXCEPT ![p] =
                         IF latest = <<>>
                         THEN [asked EXCEPT !.pc = "done", !.result = none]
                         ELSE [asked EXCEPT !.pc = "init", !.requested = latest]]
  /\ UNCHANGED <<envVars, ops, allocVars>>

\* initializeGit(true) and the URL check of restoreFromBackup.
RestoreInit(p) ==
  /\ call[p].pc = "init" /\ call[p].op \in {"restore", "restoreLatest"}
  /\ call' = [call EXCEPT ![p] =
       IF ~(workspace /\ isRepo)
       THEN [@ EXCEPT !.pc = "done", !.result =
               Error("Restore failed: Git is not available or workspace not found.", "")]
       ELSE IF targetRepoUrl = NoUrl
       THEN [@ EXCEPT !.pc = "done", !.result =
               Error("Restore failed: Target backup repository URL is not configured.", "")]
       ELSE [@ EXCEPT !.pc = StepAfter("init"), !.url = targetRepoUrl]]
  /\ UNCHANGED <<envVars, ops, faults, allocVars>>

\* Ensure backup remote is configured (the fetch URL is compared).
RestoreBind(p) ==
  /\ call[p].pc = "bind" /\ call[p].op \in {"restore", "restoreLatest"}
  /\ \E failAt \in BindFailures :
       LET b == BindRemote(remotes, call[p].url, FALSE, failAt)
           seen == <<[prior |-> lastBound, before |-> remotes, after |-> b.remotes]>>
       IN  /\ remotes' = b.remotes
           /\ lastBound' = Bound(b, "fetch", call[p].url)
           /\ faults' = Charged(b.failed = "none")
           /\ call' = [call EXCEPT ![p] =
                IF b.failed = "none"
                THEN [@ EXCEPT !.pc = StepAfter("bind"), !.cmds = @ \o b.cmds, !.bound = seen]
                ELSE [@ EXCEPT !.pc = "done", !.cmds = @ \o b.cmds,
                        !.result = Error("Failed to prepare remote for restore", b.failed)]]
  /\ UNCHANGED <<commits, tips>>
  /\ UNCHANGED <<constVars, ops, isRepo, octokit, current, localBranches, tracked, changed,
                 staged, stashList, remoteBranches, remoteRefs, pushed>>

\* A plausible slip: every name is taken to be held.
HeldAlways(rs, name) == TRUE

\* The repository the alias fetches from holds the branch.
Held(rs, name) ==
  /\ BackupRemoteOf(rs) # <<>>
  /\ name \in remoteBranches[BackupRemoteOf(rs)[1].fetch]

\* git.fetch(BACKUP_REMOTE_NAME, branchName): git answers "couldn't find
\* remote ref" for a branch the remote does not hold.
RestoreFetch(p) ==
  /\ call[p].pc = "fetch" /\ call[p].op \in {"restore", "restoreLatest"}
  /\ LET name == call[p].requested
         held == Held(remotes, name)
     IN  \E ok \in (IF held THEN Outcomes ELSE {TRUE}) :
           /\ faults' = Charged(ok)
           /\ IF held /\ ok
              THEN /\ remoteRefs' = remoteRefs \cup {name}
                   /\ tips' = [tips EXCEPT !.tracking =
                        SetTip(@, name, TipOf(tips.remote[BackupRemoteOf(remotes)[1].fetch], name))]
                   /\ call' = [call EXCEPT ![p] = [@ EXCEPT !.pc = StepAfter("fetch"),
                        !.cmds = Append(@, Cmd("fetch", name, TRUE))]]
              ELSE /\ UNCHANGED <<remoteRefs, tips>>
                   /\ call' = [call EXCEPT ![p] = [@ EXCEPT !.pc = "done",
                        !.cmds = Append(@, Cmd("fetch", name, FALSE)),
                        !.result = Error("Failed to prepare remote for restore",
                                         IF held THEN "fetch" ELSE "couldn't find remote ref")]]
  /\ UNCHANGED <<lastBound, commits>>
  /\ UNCHANGED <<constVars, ops, isRepo, octokit, remotes, current, localBranches, tracked,
                 changed, staged, stashList, remoteBranches, pushed>>

\* The error of the catch block around the stash, the checkout and the pop.
RestoreFailed(c, cause) ==
  [c EXCEPT !.pc = "done",
            !.result = ErrorWith("Failed to restore from branch", <<c.requested>>, cause)]

\* A plausible slip: the tree is never taken to be clean.
IsCleanNever(files) == FALSE

\* status.isClean()
IsClean(files) == files = {}

\* git.status(), and the stash of the local changes of a tree that is not
\* clean.
RestoreStash(p) ==
  /\ call[p].pc = "stash" /\ call[p].op \in {"restore", "restoreLatest"}
  /\ \E statusOk \in Outcomes, stashOk \in Outcomes :
       LET read == [call[p] EXCEPT !.cmds = Append(@, Cmd("status", <<>>, statusOk))]
           stashMsg == StashLabel(clock)
       IN  /\ (~statusOk \/ IsClean(changed)) => stashOk
           /\ faults' = Charged(statusOk /\ stashOk)
           /\ IF ~statusOk
              THEN /\ call' = [call EXCEPT ![p] = RestoreFailed(read, "status")]
                   /\ UNCHANGED <<changed, staged, stashList>>
              ELSE IF IsClean(changed)
              THEN /\ call' = [call EXCEPT ![p] = [read EXCEPT !.pc = StepAfter("stash"),
                                                              !.statusRead = TRUE]]
                   /\ UNCHANGED <<changed, staged, stashList>>
              ELSE IF ~stashOk
              THEN /\ call' = [call EXCEPT ![p] = RestoreFailed(
                        [read EXCEPT !.statusRead = TRUE, !.dirty = TRUE, !.stashMsg = stashMsg,
                                     !.cmds = Append(@, Cmd("stash push", stashMsg, FALSE))],
                        "stash")]
                   /\ UNCHANGED <<changed, staged, stashList>>
              ELSE /\ stashList' = <<[label |-> stashMsg, files |-> changed]>> \o stashList
                   /\ changed' = {}
                   /\ staged' = {}
                   /\ call' = [call EXCEPT ![p] = [read EXCEPT !.pc = StepAfter("stash"),
                        !.statusRead = TRUE, !.dirty = TRUE, !.stashed = TRUE,
                        !.stashMsg = stashMsg,
                        !.cmds = Append(@, Cmd("stash push", stashMsg, TRUE)),
                        !.msgs = Append(@, Msg("info", "Local changes stashed as:", <<stashMsg>>))]]
  /\ UNCHANGED <<lastBound, commits, tips>>
  /\ UNCHANGED <<constVars, ops, isRepo, octokit, remotes, current, localBranches, tracked,
                 remoteBranches, remoteRefs, pushed>>

\* The notification that ends a restore.
RestoreDone(c) ==
  [c EXCEPT !.pc = "done",
            !.msgs = Append(@, Msg("info", "Successfully restored workspace to backup branch",
                                   <<c.requested>>)),
            !.result = Ok]

\* A plausible slip: checkout without -B, which creates the branch when
\* there is none and leaves a branch that exists where it is.
CheckedOutKeeps(refs, name, commit) ==
  IF \E e \in refs : e.branch = name THEN refs ELSE SetTip(refs, name, commit)

\* -B: the branch is created at the start point or reset to it.
CheckedOut(refs, name, commit) == SetTip(refs, name, commit)

\* git.checkout(remoteBranchRef, ['-B', branchName, '-f'])
RestoreCheckout(p) ==
  /\ call[p].pc = "checkout" /\ call[p].op \in {"restore", "restoreLatest"}
  /\ LET name == call[p].requested
     IN  \E ok \in Outcomes :
           /\ faults' = Charged(ok)
           /\ IF ok /\ name \in remoteRefs
              THEN LET out == [call[p] EXCEPT !.cmds = Append(@, Cmd("checkout -B -f", name, TRUE))]
                   IN  /\ current' = name
                       /\ localBranches' = localBranches \cup {name}
                       /\ tips' = [tips EXCEPT !.local = CheckedOut(@, name, TipOf(tips.tracking, name))]
                       /\ changed' = {}
                       /\ staged' = {}
                       /\ call' = [call EXCEPT ![p] =
                            IF call[p].stashed THEN [out EXCEPT !.pc = StepAfter("checkout")]
                            ELSE RestoreDone(out)]
              ELSE /\ UNCHANGED <<current, localBranches, changed, staged, tips>>
                   /\ call' = [call EXCEPT ![p] = RestoreFailed(
                        [@ EXCEPT !.cmds = Append(@, Cmd("checkout -B -f", name, FALSE))], "checkout")]
  /\ UNCHANGED <<lastBound, commits>>
  /\ UNCHANGED <<constVars, ops, isRepo, octokit, remotes, tracked, stashList,
                 remoteBranches, remoteRefs, pushed>>

\* A plausible slip: the failure of the pop is thrown on.
PopFailedThrows(c) ==
  RestoreFailed([c EXCEPT !.cmds = Append(@, Cmd("stash pop", <<>>, FALSE))], "pop")

\* The catch block of the pop: a warning that names the stash, and the
\* restore goes on to its end.
PopFailed(c) ==
  RestoreDone([c EXCEPT
    !.cmds = Append(@, Cmd("stash pop", <<>>, FALSE)),
    !.msgs = Append(@, Msg("warning",
               "Could not automatically reapply stashed changes due to conflicts.",
               <<IF c.stashMsg # <<>> THEN c.stashMsg ELSE <<"recently created stash">>>>))])

\* git.stash(['pop']) of a restore that stashed; its failure (a conflict
\* may leave the stashed changes partly applied) is answered with a warning
\* and the restore still ends well.
RestorePop(p) ==
  /\ call[p].pc = "pop" /\ call[p].op \in {"restore", "restoreLatest"}
  /\ \E ok \in Outcomes :
       /\ faults' = Charged(ok)
       /\ IF ok /\ stashList # <<>>
          THEN /\ changed' = changed \cup Head(stashList).files
               /\ stashList' = Tail(stashList)
               /\ call' = [call EXCEPT ![p] = RestoreDone([@ EXCEPT
                    !.cmds = Append(@, Cmd("stash pop", <<>>, TRUE)),
                    !.msgs = Append(@, Msg("info",
                               "Previously stashed changes (if any) have been reapplied.", <<>>))])]
          ELSE /\ \E left \in {changed} \cup {changed \cup e.files : e \in Range(SubSeq(stashList, 1, 1))} :
                    changed' = left
               /\ UNCHANGED stashList
               /\ call' = [call EXCEPT ![p] = PopFailed(@)]
  /\ UNCHANGED <<lastBound, commits, tips>>
  /\ UNCHANGED <<constVars, ops, isRepo, octokit, remotes, current, localBranches, tracked,
                 staged, remoteBranches, remoteRefs, pushed>>

\* --------------------------------------------------- push current branch
\* pushCurrentState() is called.
StartPushCurrent(p) ==
  /\ p = "push"
  /\ ops < MaxOps
  /\ Idle
  /\ ops' = ops + 1
  /\ call' = [call EXCEPT ![p] = [IdleCall EXCEPT !.pc = "init", !.op = "pushCurrent"]]
  /\ UNCHANGED <<envVars, faults, allocVars>>

\* initializeGit(true), the URL check and the authentication of
\* pushCurrentState: without a URL or a session an error is shown and the
\* call returns nothing.
PushPrepare(p) ==
  /\ call[p].pc = "init" /\ call[p].op = "pushCurrent"
  /\ IF ~(workspace /\ isRepo)
     THEN /\ call' = [call EXCEPT ![p] = [@ EXCEPT !.pc = "done", !.result =
                 Error("Push operation failed: Git is not available or workspace not found.", "")]]
          /\ UNCHANGED <<octokit, faults>>
     ELSE IF targetRepoUrl = NoUrl
     THEN /\ call' = [call EXCEPT ![p] = [@ EXCEPT !.pc = "done", !.result = Ok,
                 !.msgs = Append(@, Msg("error",
                            "Push failed: Target backup repository URL is not configured.", <<>>))]]
          /\ UNCHANGED <<octokit, faults>>
     ELSE \E tokenValid \in (IF octokit THEN Outcomes ELSE {TRUE}),
             silentSession \in BOOLEAN, session \in BOOLEAN :
            LET authenticated == IF octokit /\ tokenValid THEN TRUE ELSE silentSession
                probed == [call[p] EXCEPT !.url = targetRepoUrl,
                             !.cmds = Append(@, Cmd("isAuthenticated", <<>>, authenticated))]
            IN  /\ faults' = Charged(tokenValid)
                /\ octokit' = (authenticated \/ session)
                /\ call' = [call EXCEPT ![p] =
                     IF authenticated THEN [probed EXCEPT !.pc = "bind"]
                     ELSE IF session
                     THEN [probed EXCEPT !.pc = "bind",
                             !.cmds = Append(@, Cmd("authenticate", <<>>, TRUE)),
                             !.msgs = Append(@, Msg("info", "Successfully authenticated with GitHub", <<>>))]
                     ELSE [probed EXCEPT !.pc = "done", !.result = Ok,
                             !.cmds = Append(@, Cmd("authenticate", <<>>, FALSE)),
                             !.msgs = @ \o <<Msg("error", "GitHub authentication failed", <<>>),
                                             Msg("error", "Push failed: GitHub authentication required.", <<>>)>>]]
  /\ UNCHANGED <<lastBound, commits, tips>>
  /\ UNCHANGED <<constVars, ops, isRepo, remotes, current, localBranches, tracked, changed,
                 staged, stashList, remoteBranches, remoteRefs, pushed>>

\* Configure the dedicated backup remote (same as in performBackup).
PushBind(p) ==
  /\ call[p].pc = "bind" /\ call[p].op = "pushCurrent"
  /\ \E failAt \in BindFailures :
       LET b == BindRemote(remotes, call[p].url, TRUE, failAt)
           seen == <<[prior |-> lastBound, before |-> remotes, after |-> b.remotes]>>
       IN  /\ remotes' = b.remotes
           /\ lastBound' = Bound(b, "push", call[p].url)
           /\ faults' = Charged(b.failed = "none")
           /\ call' = [call EXCEPT ![p] =
                IF b.failed = "none"
                THEN [@ EXCEPT !.pc = "push", !.cmds = @ \o b.cmds, !.bound = seen]
                ELSE [@ EXCEPT !.pc = "done", !.cmds = @ \o b.cmds,
                        !.result = Error("Failed to configure backup remote for push", b.failed)]]
  /\ UNCHANGED <<commits, tips>>
  /\ UNCHANGED <<constVars, ops, isRepo, octokit, current, localBranches, tracked, changed,
                 staged, stashList, remoteBranches, remoteRefs, pushed>>

\* git.status(), then git.push(BACKUP_REMOTE_NAME, currentBranch,
\* { '--set-upstream': null }) of the branch the status names.
PushBranch(p) ==
  /\ call[p].pc = "push" /\ call[p].op = "pushCurrent"
  /\ \E statusOk \in Outcomes, pushOk \in Outcomes :
       LET read == [call[p] EXCEPT !.pc = "done", !.cmds = Append(@, Cmd("status", <<>>, statusOk))]
           remote == BackupRemoteOf(remotes)
       IN  /\ (~statusOk \/ current = <<>>) => pushOk
           /\ faults' = Charged(statusOk /\ pushOk)
           /\ IF ~statusOk
              THEN /\ call' = [call EXCEPT ![p] =
                        [read EXCEPT !.result = Error("Push operation failed", "status")]]
                   /\ UNCHANGED <<remoteBranches, tips>>
              ELSE IF current = <<>>
              THEN /\ call' = [call EXCEPT ![p] = [read EXCEPT !.result =
                        Error("Push operation failed", "Could not determine the current branch.")]]
                   /\ UNCHANGED <<remoteBranches, tips>>
              ELSE IF /\ pushOk /\ remote # <<>>
                      /\ FastForward(TipOf(tips.remote[remote[1].push], current),
                                     TipOf(tips.local, current))
              THEN /\ remoteBranches' = [remoteBranches EXCEPT ![remote[1].push] = @ \cup {current}]
                   /\ tips' = [tips EXCEPT !.remote[remote[1].push] =
                                  SetTip(@, current, TipOf(tips.local, current))]
                   /\ call' = [call EXCEPT ![p] = [read EXCEPT !.result = Ok,
                        !.branchName = current,
                        !.cmds = Append(@, Cmd("push", current, TRUE)),
                        !.msgs = Append(@, Msg("info", "Successfully pushed branch", <<current>>))]]
              ELSE /\ UNCHANGED <<remoteBranches, tips>>
                   /\ call' = [call EXCEPT ![p] = [read EXCEPT
                        !.cmds = Append(@, Cmd("push", current, FALSE)),
                        !.result = Error("Push operation failed", "push")]]
  /\ UNCHANGED <<lastBound, commits>>
  /\ UNCHANGED <<constVars, ops, isRepo, octokit, remotes, current, localBranches, tracked,
                 changed, staged, stashList, remoteRefs, pushed>>

\* ----------------------------------------------------------- the timer
\* A plausible slip: the timer held is forgotten and not cleared.
ClearIntervalKeeps(ts, handle) == ts

\* clearInterval(handle)
ClearInterval(ts, handle) == ts \ {handle}

\* A plausible slip: the handle is forgotten and the timer is not cleared.
StoppedForgets == [timer |-> 0, timers |-> timers]

\* stop(): the timer held is cleared and forgotten.
Stopped == [timer |-> 0,
            timers |-> IF timer # 0 THEN ClearInterval(timers, timer) ELSE timers]

\* start(): stop(), then a timer is set when the interval read is positive.
\* Every setInterval answers a handle of its own: the timer set at
\* activation is 1, the one set by the n-th operation is n + 1.
Started(configured) ==
  LET fresh == ops + 2
  IN  IF GetBackupInterval(configured) > 0
      THEN [timer |-> fresh, timers |-> Stopped.timers \cup {fresh}]
      ELSE Stopped

\* The command version0.start: backupManager.start(). The calls that start,
\* stop and restart the timer count as operations.
Start ==
  /\ "version0.start" \in extension.commands
  /\ ops < MaxOps
  /\ ops' = ops + 1
  /\ timer' = Started(backupInterval).timer
  /\ timers' = Started(backupInterval).timers
  /\ UNCHANGED <<workspace, isRepo, targetRepoUrl, octokit, remotes, current, localBranches,
                 tracked, changed, staged, stashList, remoteBranches, remoteRefs, clock, pushed,
                 commits, tips, lastBound, backupInterval, faults, call, allocVars, enableNotifications, webview,
                 extension>>

\* stop(), as dispose() and deactivate() call it.
Stop ==
  /\ ops < MaxOps
  /\ ops' = ops + 1
  /\ timer' = Stopped.timer
  /\ timers' = Stopped.timers
  /\ UNCHANGED <<workspace, isRepo, targetRepoUrl, octokit, remotes, current, localBranches,
                 tracked, changed, staged, stashList, remoteBranches, remoteRefs, clock, pushed,
                 commits, tips, lastBound, backupInterval, faults, call, allocVars, enableNotifications, webview,
                 extension>>

\* activate(): the commands are registered and, when the setting
\* version0.autoStart read is true, start() is called, by a manager newly
\* made, which holds no timer; the timer it sets has the handle 1. A host
\* activates the extension when no call of an earlier activation is under
\* way.
Activate ==
  /\ ~extension.isActive
  /\ Idle
  /\ extension' = Activated
  /\ \E autoStart \in BOOLEAN :
       LET set == autoStart /\ GetBackupInterval(backupInterval) > 0
       IN  /\ timer' = (IF set THEN 1 ELSE timer)
           /\ timers' = (IF set THEN Stopped.timers \cup {1} ELSE timers)
  /\ UNCHANGED <<workspace, isRepo, targetRepoUrl, octokit, remotes, current, localBranches,
                 tracked, changed, staged, stashList, remoteBranches, remoteRefs, clock, pushed,
                 commits, tips, lastBound, backupInterval, ops, faults, call, allocVars,
                 enableNotifications, webview>>

\* deactivate(): stop() is called; the host then disposes of the
\* subscriptions of the context, the commands among them. A call under way
\* is left to run.
Deactivate ==
  /\ extension.isActive
  /\ ops < MaxOps
  /\ ops' = ops + 1
  /\ timer' = Stopped.timer
  /\ timers' = Stopped.timers
  /\ extension' = NotActive
  /\ UNCHANGED <<workspace, isRepo, targetRepoUrl, octokit, remotes, current, localBranches,
                 tracked, changed, staged, stashList, remoteBranches, remoteRefs, clock, pushed,
                 commits, tips, lastBound, backupInterval, faults, call, allocVars,
                 enableNotifications, webview>>

\* The values the setting version0.backupInterval is given.
Intervals == {-1, 0, 1, 2}

\* The setting version0.backupInterval changes: onDidChangeConfiguration
\* calls restartTimer(), which is stop() and start().
ChangeInterval ==
  /\ extension.isActive
  /\ ops < MaxOps
  /\ ops' = ops + 1
  /\ \E i \in Intervals \ {backupInterval} :
       /\ backupInterval' = i
       /\ timer' = Started(i).timer
       /\ timers' = Started(i).timers
  /\ UNCHANGED <<workspace, isRepo, targetRepoUrl, octokit, remotes, current, localBranches,
                 tracked, changed, staged, stashList, remoteBranches, remoteRefs, clock, pushed,
                 commits, tips, lastBound, faults, call, allocVars, enableNotifications, webview,
                 extension>>

\* The timer's callback runs: performBackup(false) is called, whether or
\* not the call of an earlier tick has ended. The calls in flight at a time
\* are as many as there are entry points for them.
TimerFires(p) ==
  /\ p \in {"timer", "timer2"}
  /\ timers # {}
  /\ call[p].pc = "idle"
  /\ ops < MaxOps
  /\ ops' = ops + 1
  /\ call' = [call EXCEPT ![p] = [IdleCall EXCEPT !.pc = "init", !.op = "backup"]]
  /\ UNCHANGED <<envVars, faults, allocVars>>

\* triggerManualBackup(), whatever else is under way: performBackup(true)
\* is called while a snapshot of the timer may be in flight.
TriggerManualBackup ==
  /\ call["manual"].pc = "idle"
  /\ ops < MaxOps
  /\ ops' = ops + 1
  /\ call' = [call EXCEPT !["manual"] = [IdleCall EXCEPT !.pc = "init", !.op = "backup"]]
  /\ UNCHANGED <<envVars, faults, allocVars>>

\* The saveTargetRepo message of the sidebar view, between two operations:
\* the setting version0.targetBackupRepoUrl is given another URL.
ChangeTargetUrl ==
  /\ Idle
  /\ \E u \in {UrlA, UrlB} \ {targetRepoUrl} : targetRepoUrl' = u
  /\ UNCHANGED <<workspace, isRepo, octokit, remotes, current, localBranches, tracked, changed,
                 staged, stashList, remoteBranches, remoteRefs, clock, pushed, commits, tips,
                 lastBound, backupInterval, timer, timers, ops, faults, call, allocVars, enableNotifications, webview,
                 extension>>

\* ------------------------------------------------------ the sidebar view
\* The buttons of the sidebar modelled, by the command of the message each
\* posts: Backup Now and Push Current Branch.
Buttons == {"backupNow", "pushCurrentBranch"}

\* The user presses a button: its click listener calls vscode.postMessage.
\* A press counts as an operation; one is made when nothing is under way.
PostMessage(command) ==
  /\ command \in Buttons
  /\ Idle
  /\ webview.posted = <<>>
  /\ ops < MaxOps
  /\ ops' = ops + 1
  /\ webview' = [webview EXCEPT !.posted = Append(@, command)]
  /\ UNCHANGED <<workspace, isRepo, targetRepoUrl, octokit, remotes, current, localBranches,
                 tracked, changed, staged, stashList, remoteBranches, remoteRefs, clock, pushed,
                 commits, tips, lastBound, backupInterval, timer, timers, enableNotifications, extension,
                 faults, call, allocVars>>

\* switch (message.command) of the callback of onDidReceiveMessage: the
\* case 'backupNow' calls triggerManualBackup(); a command without a case
\* falls out of the switch and nothing is called.
Dispatch(calls, command) ==
  IF command = "backupNow"
  THEN [calls EXCEPT !["manual"] = [IdleCall EXCEPT !.pc = "init", !.op = "backup"]]
  ELSE calls

\* The extension receives the oldest message the view posted.
OnDidReceiveMessage ==
  /\ webview.posted # <<>>
  /\ webview' = [posted |-> Tail(webview.posted),
                 handled |-> Append(webview.handled, Head(webview.posted))]
  /\ call' = Dispatch(call, Head(webview.posted))
  /\ UNCHANGED <<workspace, isRepo, targetRepoUrl, octokit, remotes, current, localBranches,
                 tracked, changed, staged, stashList, remoteBranches, remoteRefs, clock, pushed,
                 commits, tips, lastBound, backupInterval, timer, timers, enableNotifications, extension,
                 ops, faults, allocVars>>

\* ------------------------------------------------------- the environment
\* A second passes, between two operations.
Tick ==
  /\ Idle
  /\ clock < ClockStart + MaxClock
  /\ clock' = clock + 1
  /\ UNCHANGED <<workspace, isRepo, targetRepoUrl, octokit, remotes, current, localBranches,
                 tracked, changed, staged, stashList, remoteBranches, remoteRefs, pushed, ops,
                 commits, tips, lastBound, backupInterval, timer, timers,
                 faults, call, allocVars, enableNotifications, webview,
                 extension>>

\* The user changes a file of the working tree, between two operations.
Edit ==
  /\ Idle
  /\ isRepo
  /\ ops < MaxOps
  /\ \E f \in {GoodPath} \ changed : changed' = changed \cup {f}
  /\ UNCHANGED <<lastBound, commits, tips>>
  /\ UNCHANGED <<constVars, ops, faults, call, isRepo, octokit, remotes, current,
                 localBranches, tracked, staged, stashList, remoteBranches, remoteRefs, pushed>>

Next ==
  \/ \E p \in Procs :
       \/ StartBackup(p) \/ Return(p)
       \/ BackupInit(p) \/ BackupUrl(p) \/ BackupAuth(p)
       \/ BackupBind(p) \/ BackupEnumerate(p) \/ BackupName(p) \/ BackupStatus(p)
       \/ BackupBranch(p) \/ BackupFix(p) \/ BackupStage(p) \/ BackupCommit(p)
       \/ BackupPush(p) \/ BackupFetch(p)
       \/ StartRestore(p) \/ StartRestoreLatest(p) \/ RestoreLatest(p)
       \/ RestoreInit(p) \/ RestoreBind(p) \/ RestoreFetch(p) \/ RestoreStash(p)
       \/ RestoreCheckout(p) \/ RestorePop(p)
       \/ StartPushCurrent(p) \/ PushPrepare(p) \/ PushBind(p) \/ PushBranch(p)
       \/ TimerFires(p)
  \/ Start \/ Stop \/ ChangeInterval \/ ChangeTargetUrl
  \/ Activate \/ Deactivate
  \/ TriggerManualBackup
  \/ \E command \in Buttons : PostMessage(command)
  \/ OnDidReceiveMessage
  \/ Tick
  \/ Edit

Spec == Init /\ [][Next]_vars

\* Behaviours in which snapshots only are taken.
NextBackup ==
  \/ \E p \in {"manual", "timer"} :
       \/ StartBackup(p) \/ Return(p)
       \/ BackupInit(p) \/ BackupUrl(p) \/ BackupAuth(p)
       \/ BackupBind(p) \/ BackupEnumerate(p) \/ BackupName(p) \/ BackupStatus(p)
       \/ BackupBranch(p) \/ BackupFix(p) \/ BackupStage(p) \/ BackupCommit(p)
       \/ BackupPush(p) \/ BackupFetch(p)
  \/ Tick
  \/ Edit

SpecBackup == Init /\ [][NextBackup]_vars

\* Behaviours in which snapshots are taken by hand only, one at a time.
NextSnapshot ==
  \/ StartBackup("manual") \/ Return("manual")
  \/ BackupInit("manual") \/ BackupUrl("manual") \/ BackupAuth("manual")
  \/ BackupBind("manual") \/ BackupEnumerate("manual") \/ BackupName("manual")
  \/ BackupStatus("manual") \/ BackupBranch("manual") \/ BackupFix("manual")
  \/ BackupStage("manual") \/ BackupCommit("manual")
  \/ BackupPush("manual") \/ BackupFetch("manual")
  \/ Tick
  \/ Edit

SpecSnapshot == Init /\ [][NextSnapshot]_vars

\* Behaviours driven from the sidebar view, with notifications switched
\* on or off in the settings: buttons are pressed, the extension handles
\* the messages and the snapshots they start run to their end. A message
\* posted is delivered and a call under way goes on (the extension host
\* runs its callbacks); whether the user presses a button is up to the user.
InitWebview ==
  /\ \E n \in BOOLEAN : InitOf([UsualConfig EXCEPT !.notifications = n])
  /\ allocInput = <<>>
  /\ allocOutput = <<>>

Handling ==
  \/ OnDidReceiveMessage
  \/ Return("manual")
  \/ BackupInit("manual") \/ BackupUrl("manual") \/ BackupAuth("manual")
  \/ BackupBind("manual") \/ BackupEnumerate("manual") \/ BackupName("manual")
  \/ BackupStatus("manual") \/ BackupBranch("manual") \/ BackupFix("manual")
  \/ BackupStage("manual") \/ BackupCommit("manual")
  \/ BackupPush("manual") \/ BackupFetch("manual")

NextWebview ==
  \/ \E command \in Buttons : PostMessage(command)
  \/ Handling
  \/ Edit

SpecWebview == InitWebview /\ [][NextWebview]_vars /\ WF_vars(Handling)

\* Behaviours in which restores only are made, in the workspaces above and
\* in one that has a local branch of its own under the name of a snapshot
\* of the destination, checked out or not.
InitRestore ==
  /\ \E c \in InitialConfigs
             \cup {[UsualConfig EXCEPT !.current = b,
                                       !.localBranches = {<<"main">>, BranchName(V(1, 0), TsTokens[1])}] :
                     b \in {<<"main">>, BranchName(V(1, 0), TsTokens[1])}} : InitOf(c)
  /\ allocInput = <<>>
  /\ allocOutput = <<>>

NextRestore ==
  \/ \E p \in {"restore"} :
       \/ StartRestore(p) \/ StartRestoreLatest(p) \/ Return(p) \/ RestoreLatest(p)
       \/ RestoreInit(p) \/ RestoreBind(p) \/ RestoreFetch(p) \/ RestoreStash(p)
       \/ RestoreCheckout(p) \/ RestorePop(p)
  \/ Tick
  \/ Edit

SpecRestore == InitRestore /\ [][NextRestore]_vars

\* Behaviours about the remote of the alias: snapshots, restores and pushes
\* of the current branch, one at a time, with the destination URL changed
\* between them, in a repository that has a remote of the user's own and
\* no remote of the alias, or one of another URL, or one whose two URLs
\* differ.
InitRemote ==
  /\ \E rs \in {{Origin}, {Origin, StaleRemote}, {Origin, SplitRemote}} :
       InitOf([UsualConfig EXCEPT !.remotes = rs,
                                  !.dest = {BranchName(V(1, 0), TsTokens[1])}])
  /\ allocInput = <<>>
  /\ allocOutput = <<>>

NextRemote ==
  \/ \E p \in {"manual", "restore", "push"} :
       \/ StartBackup(p) \/ Return(p)
       \/ BackupInit(p) \/ BackupUrl(p) \/ BackupAuth(p)
       \/ BackupBind(p) \/ BackupEnumerate(p) \/ BackupName(p) \/ BackupStatus(p)
       \/ BackupBranch(p) \/ BackupFix(p) \/ BackupStage(p) \/ BackupCommit(p)
       \/ BackupPush(p) \/ BackupFetch(p)
       \/ StartRestore(p) \/ StartRestoreLatest(p) \/ RestoreLatest(p)
       \/ RestoreInit(p) \/ RestoreBind(p) \/ RestoreFetch(p) \/ RestoreStash(p)
       \/ RestoreCheckout(p) \/ RestorePop(p)
       \/ StartPushCurrent(p) \/ PushPrepare(p) \/ PushBind(p) \/ PushBranch(p)
  \/ ChangeTargetUrl
  \/ Edit

SpecRemote == InitRemote /\ [][NextRemote]_vars

\* Behaviours of the scheduler: the timer is started, stopped and
\* restarted, its ticks and the manual trigger take snapshots, one at a
\* time.
InitTimer ==
  /\ \E i \in Intervals, a \in BOOLEAN :
       InitOf([UsualConfig EXCEPT !.interval = i, !.autoStart = a, !.dest = {}])
  /\ allocInput = <<>>
  /\ allocOutput = <<>>

NextTimer ==
  \/ \E p \in {"manual", "timer"} :
       \/ StartBackup(p) \/ Return(p)
       \/ BackupInit(p) \/ BackupUrl(p) \/ BackupAuth(p)
       \/ BackupBind(p) \/ BackupEnumerate(p) \/ BackupName(p) \/ BackupStatus(p)
       \/ BackupBranch(p) \/ BackupFix(p) \/ BackupStage(p) \/ BackupCommit(p)
       \/ BackupPush(p) \/ BackupFetch(p)
  \/ Start \/ Stop \/ ChangeInterval

SpecTimer == InitTimer /\ [][NextTimer]_vars

\* Behaviours of the extension from before its activation: it is activated
\* and deactivated, its commands and its settings start, stop and restart
\* the scheduler, and the ticks of the timer take snapshots.
InitExtension ==
  /\ \E i \in Intervals :
       InitOf([UsualConfig EXCEPT !.active = FALSE, !.interval = i, !.dest = {}])
  /\ allocInput = <<>>
  /\ allocOutput = <<>>

NextExtension ==
  \/ Activate \/ Deactivate
  \/ Start \/ Stop \/ ChangeInterval
  \/ StartBackup("timer") \/ Return("timer")
  \/ BackupInit("timer") \/ BackupUrl("timer") \/ BackupAuth("timer")
  \/ BackupBind("timer") \/ BackupEnumerate("timer") \/ BackupName("timer")
  \/ BackupStatus("timer") \/ BackupBranch("timer") \/ BackupFix("timer")
  \/ BackupStage("timer") \/ BackupCommit("timer")
  \/ BackupPush("timer") \/ BackupFetch("timer")

SpecExtension == InitExtension /\ [][NextExtension]_vars

\* Behaviours in which the timer, as set when the extension starts, ticks
\* while snapshots are under way.
NextTicks ==
  \E p \in {"timer", "timer2"} :
    \/ TimerFires(p) \/ Return(p)
    \/ BackupInit(p) \/ BackupUrl(p) \/ BackupAuth(p)
    \/ BackupBind(p) \/ BackupEnumerate(p) \/ BackupName(p) \/ BackupStatus(p)
    \/ BackupBranch(p) \/ BackupFix(p) \/ BackupStage(p) \/ BackupCommit(p)
    \/ BackupPush(p) \/ BackupFetch(p)

SpecTicks == InitTimer /\ [][NextTicks]_vars

\* Behaviours in which a snapshot taken by hand and one of the timer may
\* overlap: neither waits for the other.
NextOverlap ==
  \/ TriggerManualBackup \/ TimerFires("timer")
  \/ \E p \in {"manual", "timer"} :
       \/ Return(p)
       \/ BackupInit(p) \/ BackupUrl(p) \/ BackupAuth(p)
       \/ BackupBind(p) \/ BackupEnumerate(p) \/ BackupName(p) \/ BackupStatus(p)
       \/ BackupBranch(p) \/ BackupFix(p) \/ BackupStage(p) \/ BackupCommit(p)
       \/ BackupPush(p) \/ BackupFetch(p)

SpecOverlap == InitTimer /\ [][NextOverlap]_vars

\* --------------------------------------------- the allocator on its own
InitAlloc ==
  /\ InitOf(UsualConfig)
  /\ allocInput \in SeqsUpTo(NamePool, MaxList)
  /\ allocOutput = <<>>

\* const existingBranches = ...; the fold over them; nextVersion.
Allocate ==
  /\ allocOutput = <<>>
  /\ allocOutput' = NextVersion(allocInput)
  /\ UNCHANGED <<envVars, ops, faults, call, allocInput, staging>>

SpecAlloc == InitAlloc /\ [][Allocate]_vars

\* ---------------------------------------------- the staging on its own
\* The i-th path of a status, one that includes 'voicetype' or one that
\* does not.
NumberedPath(i, bad) ==
  (IF bad THEN <<"voicetype", "/">> ELSE <<"src", "/">>) \o ToDigits(i)

\* The statuses handed in list up to MaxFiles paths, of which none, every
\* one, every second or every 51st includes 'voicetype'.
MaxFiles == 103
BadEvery == {0, 1, 2, 51}

StatusOf(n, k) == [i \in 1..n |-> NumberedPath(i, k # 0 /\ i % k = 0)]

InitStaging ==
  /\ \E n \in 0..MaxFiles, k \in BadEvery :
       InitOf([UsualConfig EXCEPT !.files = StatusOf(n, k)])
  /\ allocInput = <<>>
  /\ allocOutput = <<>>

\* statusSummary.files; filesToAdd; the loop of git.add(batch).
StageFiles ==
  /\ ~staging.done
  /\ staging' = [staging EXCEPT !.adds = AddBatches(staging.files), !.done = TRUE]
  /\ UNCHANGED <<envVars, ops, faults, call, allocInput, allocOutput>>

SpecStaging == InitStaging /\ [][StageFiles]_vars
\* ------------------------------------------------- properties: allocator
\* The versions of the names of a list that match ^v<digits>.<digits>.
MatchedVersions(branches) ==
  {MatchVersion(b) : b \in {c \in Range(branches) : MatchVersion(c) # <<>>}}

\* The greatest of a non-empty finite set of integers.
MaxOf(S) == CHOOSE x \in S : \A y \in S : y <= x

\* The version the contract gives for a list: 1.0 without a matching name,
\* else the largest major and, next to it, one more than the largest minor
\* among the names of that major.
ContractVersion(branches) ==
  LET ms == MatchedVersions(branches)
  IN  IF ms = {} THEN <<"1", ".", "0">>
      ELSE LET maxMajor == MaxOf({m[1] : m \in ms})
               maxMinor == MaxOf({m[2] : m \in {n \in ms : n[1] = maxMajor}})
           IN  V(maxMajor, maxMinor + 1)

ScenarioList ==
  <<BranchName(V(1, 0), TsTokens[1]), BranchName(V(1, 2), TsTokens[2]),
    BranchName(V(2, 0), TsTokens[3])>>

\* C1: for every list of branch names the allocated version is 1.0 exactly
\* when no name matches ^v<digits>.<digits>, and otherwise maxMajor.(maxMinor+1)
\* with maxMinor taken among the names of the largest major: the major is
\* never incremented, v1.0, v1.2, v2.0 give 2.1 and the empty list gives 1.0.
C1_AllocatedVersion ==
  allocOutput # <<>> =>
    /\ allocOutput = ContractVersion(allocInput)
    /\ (allocOutput = <<"1", ".", "0">>) <=> (MatchedVersions(allocInput) = {})
    /\ allocInput = ScenarioList => allocOutput = <<"2", ".", "1">>
    /\ allocInput = <<>> => allocOutput = <<"1", ".", "0">>

\* The allocator has answered 2.1 for the list v1.0, v1.2, v2.0.
C1_Witness ==
  /\ allocInput = ScenarioList
  /\ allocOutput = <<"2", ".", "1">>

\* ------------------------------------------------- properties: snapshots
\* The <<major, minor>> of a version text such as 2.1.
VersionPair(version) == MatchVersion(<<"v">> \o version)

Lower(a, b) == a[1] < b[1] \/ (a[1] = b[1] /\ a[2] < b[2])

\* The snapshot calls in flight or just ended.
BackupCalls == {p \in Procs : call[p].op = "backup"}

EnumerationFailed(c) == c.enum \in {"noClient", "badUrl", "listError"}

C3_FailureIsWarning ==
  \A p \in BackupCalls :
    (EnumerationFailed(call[p]) /\ call[p].version # <<>>) =>
      /\ call[p].version = <<"1", ".", "0">>
      /\ \E i \in DOMAIN call[p].msgs : call[p].msgs[i].sev = "warning"
      /\ \A i \in DOMAIN call[p].msgs :
           call[p].msgs[i].text # "Failed to list version branches"

\* A snapshot whose listing was refused went on to push its branch.
C3_Witness ==
  \E p \in BackupCalls :
    /\ call[p].enum = "listError"
    /\ call[p].version = <<"1", ".", "0">>
    /\ \E i \in DOMAIN call[p].cmds :
         call[p].cmds[i].cmd = "push" /\ call[p].cmds[i].ok

\* The commands of a name a call issued.
Issued(c, cmd) == {i \in DOMAIN c.cmds : c.cmds[i].cmd = cmd}

\* C4: a snapshot whose status lists no changed path is not skipped and not
\* failed for that: no add is issued, the commit on the new branch is empty
\* and is still made, and the branch is pushed to the bound remote; the call
\* fails only when the commit, the push or the fetch itself fails.
C4_EmptySnapshot ==
  \A p \in BackupCalls :
    LET c == call[p]
    IN  (c.statusRead /\ c.files = <<>>) =>
          /\ Issued(c, "add") = {}
          /\ c.pc \in {"commit", "push", "fetch", "done"}
          /\ c.pc \in {"push", "fetch", "done"} =>
               /\ Issued(c, "commit") # {}
               /\ \A i \in Issued(c, "commit") :
                    c.cmds[i].ok => (c.cmds[i].arg = c.branchName /\ c.committed = <<>>)
          /\ c.pc = "done" =>
               \/ /\ c.result.status = "ok"
                  /\ c.branchName \in remoteBranches[c.url]
                  /\ \E r \in remotes : r.name = BACKUP_REMOTE_NAME /\ r.push = c.url
                  /\ \E i \in Issued(c, "push") : c.cmds[i].ok /\ c.cmds[i].arg = c.branchName
               \/ /\ c.result.status = "error"
                  /\ c.result.cause \in {"commit", "push", "fetch"}
                  /\ \E i \in Issued(c, c.result.cause) : ~c.cmds[i].ok

\* A snapshot of a tree without changes has ended well, its branch pushed.
C4_Witness ==
  \E p \in BackupCalls :
    /\ call[p].statusRead /\ call[p].files = <<>>
    /\ call[p].pc = "done" /\ call[p].result.status = "ok"
    /\ call[p].committed = <<>>
    /\ call[p].branchName \in remoteBranches[call[p].url]

\* -------------------------------------------------- properties: restores
\* The restore calls in flight or just ended, and the tree they started on.
RestoreCalls == {p \in Procs : call[p].op \in {"restore", "restoreLatest"}}

StartedClean(c) == c.pre[1].changed = {}

Succeeded(c, cmd) == {i \in Issued(c, cmd) : c.cmds[i].ok}

\* C5: a restore that starts on a clean tree never stashes and never pops.
\* A restore that starts on a dirty tree stashes at most once and pops at
\* most once; its forced checkout comes after exactly one stash, made
\* before it, and none is made after it; the one reapply is attempted after
\* the checkout has succeeded, and a restore that ends well has made one
\* stash and one reapply.
C5_StashAndReapply ==
  \A p \in RestoreCalls :
    LET c == call[p]
        pushes == Issued(c, "stash push")
        pops == Issued(c, "stash pop")
        outs == Issued(c, "checkout -B -f")
    IN  IF StartedClean(c)
        THEN pushes = {} /\ pops = {}
        ELSE /\ Cardinality(pushes) <= 1 /\ Cardinality(pops) <= 1
             /\ \A o \in outs : \E s \in pushes : c.cmds[s].ok /\ s < o
             /\ \A s \in pushes : \A o \in outs : s < o
             /\ \A r \in pops : \E o \in outs : c.cmds[o].ok /\ o < r
             /\ (c.pc = "done" /\ Succeeded(c, "checkout -B -f") # {}) => Cardinality(pops) = 1
             /\ (c.pc = "done" /\ c.result.status = "ok") =>
                  Cardinality(pushes) = 1 /\ Cardinality(pops) = 1

\* A restore of a dirty tree has ended well after one stash and one reapply.
C5_Witness ==
  \E p \in RestoreCalls :
    /\ ~StartedClean(call[p])
    /\ call[p].pc = "done" /\ call[p].result.status = "ok"
    /\ Cardinality(Issued(call[p], "stash push")) = 1
    /\ Cardinality(Succeeded(call[p], "stash pop")) = 1

\* C6, as stated: a restore that ends with an error after it has made a
\* stash names the label of that stash in the error, or in a warning or an
\* error shown to the user.
C6_LabelInError ==
  \A p \in RestoreCalls :
    LET c == call[p]
    IN  (c.pc = "done" /\ c.result.status = "error" /\ c.stashed) =>
          \/ \E i \in DOMAIN c.result.args : c.result.args[i] = c.stashMsg
          \/ \E i \in DOMAIN c.msgs :
               /\ c.msgs[i].sev \in {"error", "warning"}
               /\ \E k \in DOMAIN c.msgs[i].args : c.msgs[i].args[k] = c.stashMsg

\* The forced checkout of a restore failed after the stash was made: the
\* stash is in the stash list and the call has ended with an error.
C6_Witness ==
  \E p \in RestoreCalls :
    /\ call[p].pc = "done" /\ call[p].result.status = "error"
    /\ call[p].result.cause = "checkout"
    /\ call[p].stashed
    /\ stashList # <<>> /\ Head(stashList).label = call[p].stashMsg

\* C7: when the reapply of the stash fails after the forced checkout has
\* succeeded, the restore still ends well (nothing is thrown), and a warning
\* is shown that names the label the stash was made under.
C7_ReapplyFailure ==
  \A p \in RestoreCalls :
    LET c == call[p]
    IN  \A r \in Issued(c, "stash pop") :
          ~c.cmds[r].ok =>
            /\ c.pc = "done" /\ c.result = Ok
            /\ \E o \in Succeeded(c, "checkout -B -f") : o < r
            /\ \E s \in Succeeded(c, "stash push") :
                 \E i \in DOMAIN c.msgs :
                   /\ c.msgs[i].sev = "warning"
                   /\ c.msgs[i].args = <<c.cmds[s].arg>>
            /\ \A i \in DOMAIN c.msgs : c.msgs[i].sev # "error"

\* A reapply has failed and the stash is still in the stash list.
C7_Witness ==
  \E p \in RestoreCalls :
    /\ \E r \in Issued(call[p], "stash pop") : ~call[p].cmds[r].ok
    /\ call[p].result = Ok
    /\ stashList # <<>> /\ Head(stashList).label = call[p].stashMsg

\* The place of a command in the order of a restore.
StepRank(cmd) ==
  CASE cmd = "listMatchingRefs" -> 0
    [] cmd = "getRemotes" -> 1
    [] cmd = "removeRemote" -> 2
    [] cmd = "addRemote" -> 3
    [] cmd = "fetch" -> 4
    [] cmd = "status" -> 5
    [] cmd = "stash push" -> 6
    [] cmd = "checkout -B -f" -> 7
    [] cmd = "stash pop" -> 8
    [] OTHER -> 9

\* C8: the commands of one restore call come in the order bind, fetch,
\* stash, checkout, reapply, each at most once and each after the one before
\* it went well: the checkout is of the branch whose fetch succeeded in the
\* same call, a stash is made only of a dirty tree and never after the
\* checkout, a reapply only of a stash that was made, and a restore ends
\* well only after its checkout.
C8_StepOrder ==
  \A p \in RestoreCalls :
    LET c == call[p]
        n == Len(c.cmds)
    IN  /\ \A i \in 1..n : \A j \in (i + 1)..n :
             /\ StepRank(c.cmds[i].cmd) < StepRank(c.cmds[j].cmd)
             /\ c.cmds[i].ok
        /\ \A i \in 1..n : StepRank(c.cmds[i].cmd) <= 8
        /\ \A f \in Issued(c, "fetch") :
             Succeeded(c, "getRemotes") # {} /\ c.cmds[f].arg = c.requested
        /\ \A s \in Issued(c, "status") : Succeeded(c, "fetch") # {}
        /\ \A s \in Issued(c, "stash push") :
             Succeeded(c, "status") # {} /\ ~StartedClean(c)
        /\ \A o \in Issued(c, "checkout -B -f") :
             /\ c.cmds[o].arg = c.requested
             /\ \E f \in Succeeded(c, "fetch") : f < o /\ c.cmds[f].arg = c.requested
             /\ Succeeded(c, "status") # {}
             /\ \A s \in Issued(c, "stash push") : s < o
        /\ \A r \in Issued(c, "stash pop") :
             /\ \E s \in Succeeded(c, "stash push") : s < r
             /\ \E o \in Succeeded(c, "checkout -B -f") : o < r
        /\ (c.pc = "done" /\ c.result.status = "ok") => Succeeded(c, "checkout -B -f") # {}

\* A restore has gone through every step: the remote was added, the branch
\* fetched, the tree stashed, the branch checked out and the stash reapplied.
C8_Witness ==
  \E p \in RestoreCalls :
    /\ call[p].pc = "done" /\ call[p].result.status = "ok"
    /\ [i \in DOMAIN call[p].cmds |-> call[p].cmds[i].cmd]
         = <<"getRemotes", "addRemote", "fetch", "status", "stash push",
             "checkout -B -f", "stash pop">>

\* C9: a restore of a branch the destination does not hold fails at the
\* fetch, with the error of the remote's preparation that passes on git's
\* "couldn't find remote ref"; no status, stash, checkout or reapply is
\* issued, and the changed files, the current branch and the stash list stay
\* as they were when the call started.
C9_MissingBranch ==
  \A p \in RestoreCalls :
    LET c == call[p]
    IN  (c.url # NoUrl /\ c.requested \notin remoteBranches[c.url]) =>
          /\ TreeState = c.pre[1]
          /\ c.pc \in {"bind", "fetch", "done"}
          /\ \A i \in DOMAIN c.cmds : StepRank(c.cmds[i].cmd) <= 4
          /\ c.pc = "done" =>
               /\ c.result.status = "error"
               /\ c.result.text = "Failed to prepare remote for restore"
               /\ IF Issued(c, "fetch") # {}
                  THEN /\ c.result.cause = "couldn't find remote ref"
                       /\ Succeeded(c, "fetch") = {}
                  ELSE c.result.cause \in {"getRemotes", "removeRemote", "addRemote"}

\* The restore of a missing branch has failed at the fetch, on a dirty tree.
C9_Witness ==
  \E p \in RestoreCalls :
    /\ call[p].requested = MissingBranch
    /\ call[p].pc = "done"
    /\ call[p].result.cause = "couldn't find remote ref"
    /\ changed # {} /\ TreeState = call[p].pre[1]

\* The timestamp component of a branch name, read off the name itself: the
\* tokens between its first '/' and the next one (or its end) when they are
\* one timestamp of the clock, as the number of that timestamp; 0 otherwise.
StampTime(b) ==
  LET slashes == {i \in DOMAIN b : b[i] = "/"}
  IN  IF slashes = {} THEN 0
      ELSE LET first == CHOOSE i \in slashes : \A j \in slashes : i <= j
               later == {j \in slashes : j > first} \cup {Len(b) + 1}
               next == CHOOSE j \in later : \A k \in later : j <= k
           IN  IF next = first + 2 /\ \E t \in DOMAIN TsTokens : TsTokens[t] = b[first + 1]
               THEN CHOOSE t \in DOMAIN TsTokens : TsTokens[t] = b[first + 1]
               ELSE 0

BindCalls == {p \in Procs : call[p].bound # <<>>}

Kind(c) == IF c.op \in {"restore", "restoreLatest"} THEN "fetch" ELSE "push"

AliasOf(rs) == {r \in rs : r.name = BACKUP_REMOTE_NAME}

Compared(r, kind) == IF kind = "push" THEN r.push ELSE r.fetch

RemoteCmds(c) == {i \in DOMAIN c.cmds : c.cmds[i].cmd \in {"addRemote", "removeRemote"}}

\* C11: the remote binding is idempotent. After every binding that went
\* through, exactly one remote has the reserved alias and the URL the
\* binding compares (the push URL for a snapshot and a push of the current
\* branch, the fetch URL for a restore) is the destination URL; and a
\* binding that follows a binding of the same kind with the same URL issues
\* no remote add and no remote remove and leaves the remotes as they were.
C11_BindTwice ==
  \A p \in BindCalls :
    LET c == call[p]
        b == c.bound[1]
    IN  /\ \E r \in AliasOf(b.after) :
             AliasOf(b.after) = {r} /\ Compared(r, Kind(c)) = c.url
        /\ b.prior = [kind |-> Kind(c), url |-> c.url] =>
             RemoteCmds(c) = {} /\ b.after = b.before

\* A second snapshot, and a second restore, has bound the URL the first one
\* bound.
C11_Witness ==
  \E p \in BindCalls :
    /\ call[p].bound[1].prior = [kind |-> Kind(call[p]), url |-> call[p].url]
    /\ call[p].op = "restore"

\* The binding has removed the remote and added it again, in that order.
Rebound(c) ==
  \E i, j \in DOMAIN c.cmds :
    /\ i < j
    /\ c.cmds[i] = Cmd("removeRemote", <<>>, TRUE)
    /\ c.cmds[j] = Cmd("addRemote", c.url, TRUE)

\* A binding that follows a binding of another URL.
UrlChanged(c) == c.bound[1].prior.kind # "none" /\ c.bound[1].prior.url # c.url

\* C12 as stated: at most one remote has the reserved alias in every state,
\* and every binding that follows a binding of another URL removes the
\* remote and adds it again, after which no remote of the alias points at
\* the old URL.
C12_UrlChangeRebinds ==
  /\ Cardinality(AliasOf(remotes)) <= 1
  /\ \A p \in BindCalls :
       LET c == call[p]
           b == c.bound[1]
       IN  UrlChanged(c) =>
             /\ Rebound(c)
             /\ \A r \in AliasOf(b.after) : r.push # b.prior.url /\ r.fetch # b.prior.url

\* A restore has followed a binding of another URL, has found a remote of
\* the alias whose fetch URL is the new URL and whose push URL is the old
\* one, and has left it as it was.
C12_Witness ==
  \E p \in BindCalls :
    /\ UrlChanged(call[p])
    /\ ~Rebound(call[p])
    /\ \E r \in AliasOf(call[p].bound[1].after) : r.push = call[p].bound[1].prior.url

\* C13 as stated: after every binding that went through, exactly one remote
\* has the reserved alias, and its push URL and its fetch URL are both the
\* destination URL.
C13_BothUrlsBound ==
  \A p \in BindCalls :
    \E r \in AliasOf(call[p].bound[1].after) :
      /\ AliasOf(call[p].bound[1].after) = {r}
      /\ r.push = call[p].url
      /\ r.fetch = call[p].url

\* A binding has found a remote of the alias whose two URLs differ, and has
\* left it as it was.
C13_Witness ==
  \E p \in BindCalls :
    /\ SplitRemote \in call[p].bound[1].before
    /\ call[p].bound[1].after = call[p].bound[1].before

\* The remotes that do not have the reserved alias.
OtherRemotes(rs) == {r \in rs : r.name # BACKUP_REMOTE_NAME}

\* C14: no step of a snapshot, of a restore or of a push of the current
\* branch changes the name or a URL of a remote that does not have the
\* reserved alias.
C14_OtherRemotesKept == [][OtherRemotes(remotes)' = OtherRemotes(remotes)]_vars

\* A push of the current branch has rebound the alias in a repository that
\* has the user's origin.
C14_Witness ==
  /\ Origin \in remotes
  /\ call["push"].bound # <<>>
  /\ Rebound(call["push"])

\* ------------------------------------------------ properties: scheduler
\* C15 as stated: while the configured interval is zero or negative no
\* timer is set, so that no tick starts a snapshot.
C15_NonPositiveDisables == backupInterval <= 0 => (timer = 0 /\ timers = {})

\* The interval is configured as zero, a timer is set and a tick of it has
\* started a snapshot.
C15_Witness ==
  /\ backupInterval = 0
  /\ timers # {}
  /\ call["timer"].op = "backup"

\* C16: after any sequence of start(), stop() and restartTimer() calls at
\* most one timer is set, and it is the one whose handle the manager holds:
\* no timer is left set that stop() can no longer clear.
C16_OneTimer ==
  /\ Cardinality(timers) <= 1
  /\ timers = (IF timer = 0 THEN {} ELSE {timer})

\* Two calls have been made, the second of them a change of the interval
\* that set a timer, which is the only one set.
C16_Witness ==
  /\ backupInterval = 2
  /\ timer = 3
  /\ timers = {3}

\* The calls of performBackup that ticks of the timer started and that have
\* not ended.
TicksInFlight ==
  {p \in {"timer", "timer2"} : call[p].op = "backup" /\ call[p].pc \notin {"idle", "done"}}

\* C17 as stated: at most one snapshot that a tick started is in flight at
\* any time.
C17_OneTickAtATime == Cardinality(TicksInFlight) <= 1

\* A tick has started a snapshot while the snapshot of an earlier tick was
\* at its push.
C17_Witness ==
  /\ call["timer"].pc = "push"
  /\ call["timer2"].pc = "init"

\* ------------------------------------------- properties: snapshot steps
\* The step of a snapshot a command of its log belongs to: 1 the
\* precondition checks, 2 the remote binding, 3 the version allocation and
\* the naming, 4 the branch creation (with the status and the default
\* branch before it), 5 the index recovery, 6 the staging, 7 the commit,
\* 8 the push, 9 the final fetch.
BackupStep(c, i) ==
  LET cmd == c.cmds[i].cmd
  IN  CASE cmd \in {"init", "isAuthenticated", "authenticate"} -> 1
        [] cmd \in {"getRemotes", "removeRemote", "addRemote"} -> 2
        [] cmd \in {"listMatchingRefs", "showInputBox"} -> 3
        [] cmd \in {"checkout", "checkoutLocalBranch"} -> 4
        [] cmd = "status" ->
             IF \E j \in 1..(i - 1) : c.cmds[j].cmd = "checkoutLocalBranch" THEN 6 ELSE 4
        [] cmd \in {"rm --cached -r", "ls-files", "rm --cached"} -> 5
        [] cmd = "add" -> 6
        [] cmd = "commit" -> 7
        [] cmd = "push" -> 8
        [] cmd = "fetch" -> 9
        [] OTHER -> 0

\* The snapshot branch of the call was created or switched to.
OnBranch(c) ==
  {i \in DOMAIN c.cmds :
     /\ c.cmds[i].ok
     /\ c.cmds[i].cmd \in {"checkout", "checkoutLocalBranch"}
     /\ c.cmds[i].arg = c.branchName}

\* C18: the commands of one snapshot call come in the order of its steps,
\* none of them of an unknown step; the commit comes after the snapshot
\* branch is checked out, the push after the binding of the same call went
\* through and after the commit succeeded, the final fetch after the push
\* succeeded, and a snapshot ends well only after its final fetch.
C18_SnapshotOrder ==
  \A p \in BackupCalls :
    LET c == call[p]
        n == Len(c.cmds)
    IN  /\ \A i \in 1..n : BackupStep(c, i) >= 1
        /\ \A i \in 1..(n - 1) : BackupStep(c, i) <= BackupStep(c, i + 1)
        /\ \A i \in 1..n : BackupStep(c, i) = 2 => c.cmds[i].ok \/ i = n
        /\ \A m \in Issued(c, "commit") : \E b \in OnBranch(c) : b < m
        /\ \A u \in Issued(c, "push") :
             /\ \E g \in Succeeded(c, "getRemotes") : g < u
             /\ c.bound # <<>> /\ AliasOf(c.bound[1].after) # {}
             /\ \E m \in Succeeded(c, "commit") : m < u
             /\ c.cmds[u].arg = c.branchName
        /\ \A f \in Issued(c, "fetch") : \E u \in Succeeded(c, "push") : u < f
        /\ (c.pc = "done" /\ c.result.status = "ok") => Succeeded(c, "fetch") # {}

\* A snapshot has gone through every step: the remote was added, the index
\* recovered, a file staged, and the commit, the push and the fetch made.
C18_Witness ==
  \E p \in BackupCalls :
    /\ call[p].pc = "done" /\ call[p].result.status = "ok"
    /\ Succeeded(call[p], "addRemote") # {}
    /\ Succeeded(call[p], "rm --cached -r") # {}
    /\ Succeeded(call[p], "add") # {}

\* The commands of a snapshot from the branch creation onward that failed.
FailedFromBranch(c) ==
  {i \in DOMAIN c.cmds :
     /\ ~c.cmds[i].ok
     /\ c.cmds[i].cmd \in {"checkout", "checkoutLocalBranch", "add", "commit", "push", "fetch"}}

\* C19 as stated: a command from the branch creation onward that fails is
\* the last one of the call, and the call ends with the error 'Git
\* operation failed' that carries the message of that command.
C19_FailuresSurface ==
  \A p \in BackupCalls :
    \A i \in FailedFromBranch(call[p]) :
      /\ i = Len(call[p].cmds)
      /\ call[p].pc = "done"
      /\ call[p].result = Error("Git operation failed", call[p].cmds[i].cmd)

\* The staging of a batch has failed and the snapshot has ended well, with
\* its branch pushed.
C19_Witness ==
  \E p \in BackupCalls :
    /\ \E i \in Issued(call[p], "add") : ~call[p].cmds[i].ok
    /\ call[p].pc = "done" /\ call[p].result = Ok
    /\ Succeeded(call[p], "push") # {}

\* C20: a snapshot that fails after its branch was created or switched to
\* rolls nothing back. The branch is still a local branch and the current
\* one, a commit that was made is still on it, nothing the call staged is
\* unstaged, and the call has issued no deletion of a branch and no reset.
C20_NoRollback ==
  \A p \in BackupCalls :
    LET c == call[p]
    IN  (c.pc = "done" /\ c.result.status = "error" /\ OnBranch(c) # {}) =>
          /\ c.branchName \in localBranches
          /\ current = c.branchName
          /\ Succeeded(c, "commit") # {} => c.branchName \in commits
          /\ Succeeded(c, "commit") = {} =>
               \A a \in Succeeded(c, "add") : c.cmds[a].arg \in staged
          /\ \A i \in DOMAIN c.cmds :
               c.cmds[i].cmd \notin {"deleteLocalBranch", "reset"}

\* The commit of a file has succeeded and the push has failed.
C20_Witness ==
  \E p \in BackupCalls :
    /\ call[p].pc = "done"
    /\ call[p].result = Error("Git operation failed", "push")
    /\ Succeeded(call[p], "commit") # {}
    /\ call[p].committed # <<>>

\* ------------------------------------ properties: names of a snapshot
\* The creations of a branch that a snapshot saw fail and went on from:
\* the name was already in use.
Collided(c) ==
  {i \in Issued(c, "checkoutLocalBranch") : ~c.cmds[i].ok /\ i < Len(c.cmds)}

\* The names a random suffix gives to a name.
Suffixed(name) == {UniqueBranchName(name, r) : r \in RandomSuffixes}

\* C21 as stated: a creation that fails because the name is in use is
\* followed at once by the creation of a branch of that name with a random
\* suffix, and the snapshot goes on under the suffixed name.
C21_CollisionTakesSuffix ==
  \A p \in BackupCalls :
    \A i \in Collided(call[p]) :
      LET c == call[p]
      IN  /\ c.cmds[i + 1].cmd = "checkoutLocalBranch"
          /\ c.cmds[i + 1].arg \in Suffixed(c.cmds[i].arg)
          /\ c.cmds[i + 1].ok => c.branchName = c.cmds[i + 1].arg

\* The name was in use, the branch of that name was switched to, and the
\* snapshot was committed and pushed on it, without a suffix.
C21_Witness ==
  \E p \in BackupCalls :
    \E i \in Collided(call[p]) :
      LET c == call[p]
      IN  /\ c.cmds[i + 1] = Cmd("checkout", c.cmds[i].arg, TRUE)
          /\ c.branchName = c.cmds[i].arg
          /\ c.pc = "done" /\ c.result = Ok
          /\ \E u \in Succeeded(c, "push") : c.cmds[u].arg = c.cmds[i].arg

\* C22 as stated: no two pushed snapshots have the same branch name, every
\* commit of a snapshot is made on a branch that the same call created,
\* and no call deletes a branch, locally or at the destination.
C22_PushedImmutable ==
  /\ \A i \in DOMAIN pushed : \A j \in DOMAIN pushed : i < j => pushed[i].name # pushed[j].name
  /\ \A p \in BackupCalls :
       LET c == call[p]
       IN  /\ \A m \in Succeeded(c, "commit") :
                \E b \in Succeeded(c, "checkoutLocalBranch") :
                  b < m /\ c.cmds[b].arg = c.cmds[m].arg
           /\ \A i \in DOMAIN c.cmds :
                c.cmds[i].cmd \notin {"deleteLocalBranch", "push --delete"}

\* A branch that a snapshot had pushed has been committed to by a later
\* snapshot and pushed again under the same name.
C22_Witness ==
  /\ Len(pushed) = 2 /\ pushed[1].name = pushed[2].name
  /\ pushed[1].name \in commits
  /\ \E p \in BackupCalls :
       /\ call[p].pc = "done" /\ call[p].result = Ok
       /\ Collided(call[p]) # {}
       /\ call[p].branchName = pushed[1].name

\* Versions a name is compared under: those the allocator gives in the
\* behaviours checked, and texts close to them.
VersionPool == {V(1, 0), V(1, 1), V(2, 1), V(1, 10), V(11, 0)}

\* The name a snapshot computed, before any suffix: that of its first
\* branch creation, or the name it holds when it has not come to one.
FirstName(c) ==
  IF Issued(c, "checkoutLocalBranch") = {} THEN c.branchName
  ELSE c.cmds[CHOOSE i \in Issued(c, "checkoutLocalBranch") :
                \A j \in Issued(c, "checkoutLocalBranch") : i <= j].arg

\* C23: the name a snapshot computes is v<version>/<timestamp>, whatever
\* its note and its entry point; and a pair of a version and a timestamp
\* gives that name exactly when it is the pair of the snapshot: another
\* second or another version gives another name.
C23_NameOfVersionAndTime ==
  \A p \in BackupCalls :
    call[p].timestamp # "" =>
      LET c == call[p]
          name == FirstName(c)
          others == {x \in (VersionPool \cup {c.version}) \X DOMAIN TsTokens :
                       BranchName(x[1], FormatTs(x[2])) = name}
      IN  /\ name = <<"v">> \o c.version \o <<"/", c.timestamp>>
          /\ \E t \in ClockStart..clock : c.timestamp = FormatTs(t)
          /\ \A x \in others : x[1] = c.version /\ FormatTs(x[2]) = c.timestamp
          /\ others # {}

\* A manual snapshot with a note, of version 2.1, has been named and
\* pushed after the clock moved on by a second.
C23_Witness ==
  \E p \in BackupCalls :
    /\ call[p].pc = "done" /\ call[p].result = Ok
    /\ call[p].note # <<>>
    /\ call[p].version = V(2, 1)
    /\ call[p].timestamp = FormatTs(ClockStart + 1)
    /\ Succeeded(call[p], "push") # {}

\* The commit message without a note.
BaseMessage(c) == <<"Version0 Backup: v">> \o c.version \o <<" - ", c.timestamp>>

\* C24: a scheduled snapshot shows no prompt for a note and its commit
\* message is made of the version and the timestamp alone. A manual
\* snapshot shows the prompt once; the note is appended when it is not
\* empty, and a prompt that was dismissed or left empty leaves the message
\* without a note and the snapshot going: it fails only as a Git operation
\* fails.
C24_NoteForManualOnly ==
  \A p \in BackupCalls :
    LET c == call[p]
    IN  IF c.timestamp = "" THEN Issued(c, "showInputBox") = {}
        ELSE /\ p # "manual" =>
                  /\ Issued(c, "showInputBox") = {}
                  /\ c.note = <<>>
                  /\ c.commitMessage = BaseMessage(c)
             /\ p = "manual" =>
                  /\ Cardinality(Issued(c, "showInputBox")) = 1
                  /\ c.commitMessage = (IF c.note # <<>>
                                        THEN BaseMessage(c) \o <<" - ">> \o c.note
                                        ELSE BaseMessage(c))
                  /\ (c.note = <<>> /\ c.pc = "done" /\ c.result.status = "error")
                       => c.result.text = "Git operation failed"

\* A manual snapshot whose prompt was dismissed has been pushed, the
\* second snapshot pushed in the behaviour.
C24_Witness ==
  /\ call["manual"].pc = "done" /\ call["manual"].result = Ok
  /\ call["manual"].note = <<>>
  /\ Issued(call["manual"], "showInputBox") # {}
  /\ call["manual"].commitMessage = BaseMessage(call["manual"])
  /\ Len(pushed) = 2

\* ------------------------------- properties: preconditions of a snapshot
\* The prompt to initialize a repository was shown to the call.
Prompted(c) == \E i \in DOMAIN c.msgs : c.msgs[i].sev = "prompt"

\* C25: a snapshot that showed the prompt to initialize and has not run
\* git init (the prompt was declined) has ended, with the error 'Backup
\* cancelled', and has issued no command at all: the workspace is still
\* not a repository, it has no remote, no branch and no commit, nothing is
\* staged and nothing was pushed.
C25_DeclinedChangesNothing ==
  \A p \in BackupCalls :
    LET c == call[p]
    IN  (Prompted(c) /\ Issued(c, "init") = {}) =>
          /\ c.pc = "done"
          /\ c.result = Error("Backup cancelled: Workspace is not a Git repository.", "")
          /\ c.cmds = <<>>
          /\ ~isRepo
          /\ remotes = {} /\ lastBound = NoBound
          /\ localBranches = {} /\ current = <<>>
          /\ commits = {} /\ staged = {}
          /\ pushed = <<>>

\* The prompt was declined twice running: the second snapshot of the
\* behaviour has ended as cancelled.
C25_Witness ==
  \E p \in BackupCalls :
    /\ Prompted(call[p]) /\ Issued(call[p], "init") = {}
    /\ call[p].pc = "done" /\ call[p].result.status = "error"
    /\ ops = 2

NoUrlText == "Backup failed: Target backup repository URL is not configured"

\* C26: with no destination URL configured a snapshot never gets past the
\* check of the URL: it issues no command but the git init of its first
\* step, so no authentication, no binding, no branch, no commit and no
\* push; once the workspace is a repository it ends with the error that
\* the URL is not configured; and nothing reaches the destination a remote
\* was bound to before.
C26_NoUrlNoSnapshot ==
  targetRepoUrl = NoUrl =>
    /\ pushed = <<>>
    /\ lastBound = NoBound
    /\ remotes \in {{}, {StaleRemote}}
    /\ remoteBranches[StaleRemote.push] = {}
    /\ \A p \in BackupCalls :
         LET c == call[p]
         IN  /\ c.pc \in {"init", "url", "done"}
             /\ \A i \in DOMAIN c.cmds : c.cmds[i].cmd = "init"
             /\ c.url = NoUrl
             /\ c.pc = "done" => c.result.status = "error"
             /\ (c.pc = "done" /\ workspace /\ isRepo) => c.result = Error(NoUrlText, "")

\* In a repository whose remote of the alias was bound before, a snapshot
\* without a configured URL has ended with the error.
C26_Witness ==
  /\ targetRepoUrl = NoUrl
  /\ remotes = {StaleRemote}
  /\ \E p \in BackupCalls : call[p].pc = "done" /\ call[p].result = Error(NoUrlText, "")

AuthText == "Backup failed: GitHub authentication required."

\* C27: a snapshot asks once whether the caller is authenticated; when the
\* answer is no it makes exactly one attempt to authenticate, at once, and
\* makes none otherwise. An attempt that fails is the last command of the
\* call, which ends with the error that authentication is required: no
\* remote is bound, no branch created, nothing committed or pushed.
C27_OneAuthAttempt ==
  \A p \in BackupCalls :
    LET c == call[p]
        asked == Issued(c, "isAuthenticated")
        tried == Issued(c, "authenticate")
    IN  /\ Cardinality(asked) <= 1 /\ Cardinality(tried) <= 1
        /\ \A t \in tried : (t - 1) \in asked /\ ~c.cmds[t - 1].ok
        /\ \A a \in asked : ~c.cmds[a].ok => (a + 1) \in tried
        /\ \A t \in tried :
             ~c.cmds[t].ok =>
               /\ t = Len(c.cmds)
               /\ c.pc = "done" /\ c.result = Error(AuthText, "")
               /\ c.bound = <<>>
               /\ \A i \in DOMAIN c.cmds :
                    c.cmds[i].cmd \in {"init", "isAuthenticated", "authenticate"}

\* The one attempt of a snapshot has failed and the snapshot has ended,
\* the remote of another URL left as it was.
C27_Witness ==
  \E p \in BackupCalls :
    /\ \E t \in Issued(call[p], "authenticate") : ~call[p].cmds[t].ok
    /\ call[p].pc = "done" /\ call[p].result = Error(AuthText, "")
    /\ remotes = {StaleRemote}
    /\ pushed = <<>>

\* ----------------------------------------- properties: index recovery
\* The commands of the index recovery of a call that failed.
FixFailed(c) ==
  {i \in DOMAIN c.cmds :
     ~c.cmds[i].ok /\ c.cmds[i].cmd \in {"rm --cached -r", "ls-files", "rm --cached"}}

C29_PushButtonPushes ==
  (webview.posted # <<>> /\ Head(webview.posted) = "pushCurrentBranch")
    ~> (call["push"].op = "pushCurrent")

\* The message pushCurrentBranch has been received by the extension and
\* no call was started for it: nothing is under way, nothing was pushed
\* and no message waits.
C29_Witness ==
  /\ webview.posted = <<>>
  /\ \E i \in DOMAIN webview.handled : webview.handled[i] = "pushCurrentBranch"
  /\ webview.handled[Len(webview.handled)] = "pushCurrentBranch"
  /\ Idle
  /\ pushed = <<>>

\* The notifications of the status of a snapshot shown to a call.
StatusNotes(c) ==
  {i \in DOMAIN c.msgs :
     c.msgs[i].text \in {"Version0: Backup successful.", "Version0: Backup failed"}}

\* C30 as stated: with the setting off a snapshot shows neither of the two
\* notifications; with the setting on, a snapshot that ended well shows
\* that of the success and one that a Git operation failed that of the
\* failure.
C30_SettingControlsNotes ==
  \A p \in BackupCalls :
    LET c == call[p]
    IN  /\ ~enableNotifications => StatusNotes(c) = {}
        /\ (enableNotifications /\ c.pc = "done") =>
             /\ c.result = Ok =>
                  \E i \in StatusNotes(c) : c.msgs[i].text = "Version0: Backup successful."
             /\ c.result.text = "Git operation failed" =>
                  \E i \in StatusNotes(c) : c.msgs[i].text = "Version0: Backup failed"

\* With the setting off a snapshot has ended well and has shown the
\* notification of its success.
C30_Witness ==
  /\ ~enableNotifications
  /\ \E p \in BackupCalls :
       /\ call[p].pc = "done" /\ call[p].result = Ok
       /\ \E i \in StatusNotes(call[p]) :
            call[p].msgs[i].text = "Version0: Backup successful."

\* ------------------------------------------- properties: the extension
\* C31: once the extension has been activated, the commands version0.start,
\* version0.triggerBackup and version0.restoreLatestBackup are registered,
\* and they stay so for as long as the extension is active.
C31_CommandsRegistered ==
  extension.isActive =>
    {"version0.start", "version0.triggerBackup", "version0.restoreLatestBackup"}
      \subseteq extension.commands

\* The extension is active with its commands registered, the auto-start
\* of its activation has set a timer and one operation has been made.
C31_Witness ==
  /\ extension.isActive
  /\ "version0.restoreLatestBackup" \in extension.commands
  /\ ops = 1
  /\ timer = 1

\* ---------------------------------------------- properties: the staging
\* The paths the adds of a staging were called with, in the order of the
\* calls.
RECURSIVE Flatten(_)
Flatten(batches) ==
  IF batches = <<>> THEN <<>> ELSE Head(batches) \o Flatten(Tail(batches))

\* C32: for every status, the paths that do not include 'voicetype' are
\* each passed to git.add exactly once, in the order of the status, in
\* consecutive batches of at most 50 paths; no path that includes
\* 'voicetype' is passed, and no add is made when no path is left to add.
C32_StagedInBatches ==
  staging.done =>
    LET files == staging.files
        added == Flatten(staging.adds)
        wanted == {i \in DOMAIN files : ~IncludesVoicetype(files[i])}
    IN  /\ \A b \in DOMAIN staging.adds :
             Len(staging.adds[b]) >= 1 /\ Len(staging.adds[b]) <= 50
        /\ Len(added) = Cardinality(wanted)
        /\ {added[j] : j \in DOMAIN added} = {files[i] : i \in wanted}
        /\ added = SelectSeq(files, LAMBDA f : \E j \in DOMAIN added : added[j] = f)
        /\ wanted = {} => staging.adds = <<>>

\* A status of 103 paths of which the 51st and the 102nd include
\* 'voicetype' has been staged in three adds, of 50, 50 and 1 paths.
C32_Witness ==
  /\ staging.done
  /\ Len(staging.files) = 103
  /\ IncludesVoicetype(staging.files[51])
  /\ ~IncludesVoicetype(staging.files[2])
  /\ Len(staging.adds) = 3
  /\ Len(staging.adds[1]) = 50 /\ Len(staging.adds[2]) = 50 /\ Len(staging.adds[3]) = 1

\* ------------------------------------------- properties: branch commits
\* C33: when a restore of a branch has ended well, the current branch has
\* that name and points at the commit fetched from the branch of that name
\* of the remote of the alias, whatever commit a local branch of the name
\* pointed at before and whatever changes the tree held.
C33_RestoreResetsBranch ==
  \A p \in RestoreCalls :
    LET c == call[p]
        fetched == TipOf(tips.tracking, c.requested)
    IN  (c.pc = "done" /\ c.result.status = "ok") =>
          /\ current = c.requested
          /\ c.requested \in localBranches
          /\ fetched # NoCommit
          /\ fetched = TipOf(tips.remote[BackupRemoteOf(remotes)[1].fetch], c.requested)
          /\ TipOf(tips.local, c.requested) = fetched

\* The first operation, a restore of the branch that was checked out, with
\* a commit of its own, in a tree with changes, has ended well: the branch
\* is at the commit of the destination.
C33_Witness ==
  \E p \in RestoreCalls :
    /\ call[p].pc = "done" /\ call[p].result.status = "ok"
    /\ ops = 1
    /\ call[p].dirty
    /\ call[p].pre[1].current = call[p].requested
    /\ TipOf(tips.local, call[p].requested) # <<0, 8>>
    /\ TipOf(tips.local, call[p].requested) = TipOf(tips.remote[UrlA], call[p].requested)

\* ---------------------------------------- properties: overlapping calls
\* The snapshot taken by hand and the one of the timer have both read the
\* branches of the destination and neither has pushed yet.
Overlapping ==
  \A p \in {"manual", "timer"} :
    /\ call[p].op = "backup"
    /\ call[p].pc \in {"status", "branch", "fix", "stage", "commit", "push"}

\* C34 as stated: a snapshot taken by hand and a scheduled one that overlap
\* (both have read the branches of the destination before either has
\* pushed) are allocated distinct versions and have distinct branch names.
C34_OverlapDistinct ==
  Overlapping =>
    /\ call["manual"].version # call["timer"].version
    /\ call["manual"].branchName # call["timer"].branchName

\* Both snapshots were answered an empty list of branches by the
\* destination, have ended well and have pushed a branch of the same name
\* with the same version: two pushes were made and the destination holds
\* one branch.
C34_Witness ==
  /\ \A p \in {"manual", "timer"} :
       /\ call[p].op = "backup"
       /\ call[p].enum = "ok" /\ call[p].listed = {}
       /\ call[p].pc = "done" /\ call[p].result.status = "ok"
  /\ call["manual"].version = call["timer"].version
  /\ call["manual"].branchName = call["timer"].branchName
  /\ Len(pushed) = 2
  /\ pushed[1].name = pushed[2].name
  /\ remoteBranches[UrlA] = {pushed[1].name}

\* ------------------------------------------ properties: failed snapshots
\* C35 as stated: a snapshot that has ended with an error has not pushed a
\* branch to the destination.
C35_FailedPushedNothing ==
  \A p \in BackupCalls :
    LET c == call[p]
    IN  (c.pc = "done" /\ c.result.status = "error") => Succeeded(c, "push") = {}

\* A snapshot has ended with the error of its final fetch; its push had
\* succeeded and the destination holds its branch, which it did not list.
C35_Witness ==
  \E p \in BackupCalls :
    /\ call[p].pc = "done" /\ call[p].result.status = "error"
    /\ call[p].result.cause = "fetch"
    /\ Succeeded(call[p], "push") # {}
    /\ call[p].branchName \notin call[p].listed
    /\ call[p].branchName \in remoteBranches[call[p].url]

\* C36: a snapshot leaves the tree on its own branch. In every step: a
\* snapshot that has ended well has its branch as the current branch, with
\* a commit; a branch the snapshot creates starts at the commit of the
\* branch that was current (after a snapshot that ended well, that
\* snapshot's commit) and becomes current; the commit of the snapshot is
\* made on top of it; and from the creation of its branch on no step of
\* the snapshot or of its caller changes the current branch.
C36_StaysOnSnapshotBranch ==
  [][LET c == call["manual"]
         after == call'["manual"]
     IN  /\ (after.op = "backup" /\ after.pc = "done" /\ after.result.status = "ok") =>
               /\ current' = after.branchName
               /\ TipOf(tips'.local, current') # NoCommit
         /\ (Succeeded(after, "checkoutLocalBranch") \ Succeeded(c, "checkoutLocalBranch") # {}) =>
               /\ current' = after.branchName
               /\ TipOf(tips'.local, current') = TipOf(tips.local, current)
         /\ (Succeeded(after, "commit") \ Succeeded(c, "commit") # {}) =>
               /\ current' = current
               /\ TipOf(tips'.local, current) # TipOf(tips.local, current)
               /\ FastForward(TipOf(tips.local, current), TipOf(tips'.local, current))
               /\ Len(TipOf(tips'.local, current)) = Len(TipOf(tips.local, current)) + 1
         /\ (c.op = "backup" /\ c.pc \in {"fix", "stage", "commit", "push", "fetch", "done"}) =>
               current' = current]_vars

\* A second snapshot has ended well: its branch is current, and its commit
\* is a descendant of the commit of the first snapshot, which was taken
\* from the branch main.
C36_Witness ==
  /\ call["manual"].pc = "done" /\ call["manual"].result.status = "ok"
  /\ Len(pushed) = 2
  /\ pushed[1].name # pushed[2].name
  /\ current = pushed[2].name
  /\ FastForward(<<0>>, TipOf(tips.local, pushed[1].name))
  /\ Len(TipOf(tips.local, pushed[1].name)) = 2
  /\ Len(TipOf(tips.local, pushed[2].name)) = 3

\* --------------------------------------- properties: the latest snapshot
\* The calls of restoreLatestBackup that have selected a branch.
Selected == {p \in RestoreCalls : call[p].op = "restoreLatest" /\ call[p].requested # <<>>}

\* C37: the branch restoreLatestBackup selects is one of those listed whose
\* segment after the first '/' is exactly one timestamp text of a real
\* date; a branch with a collision suffix after its timestamp is never
\* selected, even when it is the latest snapshot of the destination.
C37_LatestHasTimestamp ==
  \A p \in Selected :
    LET name == call[p].requested
        parts == SplitSlash(name)
    IN  /\ name \in call[p].listed
        /\ Len(parts) >= 2
        /\ Len(parts[2]) = 1
        /\ \E t \in DOMAIN TsTokens : TsTokens[t] = parts[2][1]
        /\ \A b \in NamePool \cup call[p].listed, r \in RandomSuffixes :
             name # UniqueBranchName(b, r)

\* The destination's latest snapshot has a collision suffix and
\* restoreLatestBackup has selected the older snapshot without one.
C37_Witness ==
  \E p \in Selected :
    /\ UniqueBranchName(BranchName(V(1, 1), TsTokens[2]), 7) \in call[p].listed
    /\ call[p].requested = BranchName(V(1, 0), TsTokens[1])

\* ------------------------------------ properties: the scheduler's life
\* A snapshot that has ended with an error.
Thrown(c) == c.op = "backup" /\ c.pc = "done" /\ c.result.status = "error"

\* C38: a scheduled snapshot that fails does not cancel the timer. A step
\* in which a snapshot of the timer ends with an error, or in which its
\* error is taken by the timer's callback, leaves the timer that is set
\* and the handle held as they are; only the starts, stops and restarts
\* of the scheduler, which are operations of their own, change them.
C38_FailureKeepsTimer ==
  [][(ops' = ops /\ (Thrown(call["timer"]) \/ Thrown(call'["timer"])))
       => (timer' = timer /\ timers' = timers)]_vars

\* A snapshot of the timer failed at its push, after its commit; the timer
\* is still set and a later tick has started the next snapshot.
C38_Witness ==
  /\ call["timer"].op = "backup" /\ call["timer"].pc = "init"
  /\ commits # {}
  /\ pushed = <<>>
  /\ faults = 1
  /\ timers # {} /\ timers = {timer}

\* C39 as stated: a change of the setting version0.backupInterval, on which
\* restartTimer() runs, leaves a timer set if and only if the interval
\* configured is positive, whether or not a timer was set before.
C39_RestartFollowsInterval ==
  [][(backupInterval' # backupInterval)
       => ((timers' # {}) <=> (backupInterval' > 0))]_vars

\* What does hold of restartTimer(): a timer is set if and only if the
\* interval that getBackupInterval() reads is positive, whether or not a
\* timer was set before, and it is a timer newly set.
RestartFollowsIntervalRead ==
  [][(backupInterval' # backupInterval)
       => /\ (timers' # {}) <=> (GetBackupInterval(backupInterval') > 0)
          /\ timers' = (IF timer' = 0 THEN {} ELSE {timer'})
          /\ timer' \notin timers]_vars

\* The interval configured is zero and the first operation after the
\* activation (the change of the setting to zero, which ran
\* restartTimer(), or a start) has set a timer, a tick of which has
\* started a snapshot.
C39_Witness ==
  /\ extension.isActive
  /\ backupInterval = 0
  /\ ops = 2
  /\ timer = 2 /\ timers = {2}
  /\ call["timer"].op = "backup" /\ call["timer"].pc = "init"

\* C40: a step of stop() (which is what dispose() runs) or of the
\* deactivation leaves no timer set and no handle held, and changes no call
\* in flight; stop() without a timer held leaves the timers as they are;
\* and while no timer is set no step starts a scheduled snapshot: one
\* starts again only after start() or restartTimer() has set a timer.
C40_StopEndsSchedule ==
  [][/\ (Stop \/ Deactivate) => (timer' = 0 /\ timers' = {} /\ call' = call)
     /\ (Stop /\ timer = 0) => timers' = timers
     /\ (timers = {} /\ call["timer"].pc = "idle") => call'["timer"].pc = "idle"]_vars

\* The extension was deactivated while a scheduled snapshot was in flight:
\* no timer is set and the snapshot, not interrupted, is past its push.
C40_Witness ==
  /\ ~extension.isActive
  /\ timer = 0 /\ timers = {}
  /\ ops = 2
  /\ call["timer"].op = "backup" /\ call["timer"].pc = "fetch"
  /\ Succeeded(call["timer"], "push") # {}
====
